---- MODULE Spec2Model ----
(***************************************************************************)
(* whats-conversa: the webhook ingestion pipeline of the backend.          *)
(*                                                                         *)
(* The store is the relational schema of the Prisma migration (instances,  *)
(* contacts, conversations, messages, with its unique indexes).  Every     *)
(* HTTP request is a task; a task advances one awaited store call at a     *)
(* time, and the synchronous code that follows the call runs in the same   *)
(* step, as it does on the single-threaded Node.js event loop.  Tasks      *)
(* interleave only between awaited calls.  The tasks being handled and the *)
(* answered ones are bags of task records.                                 *)
(***************************************************************************)
EXTENDS Integers, Sequences, FiniteSets, Bags, TLC

VARIABLES users, instances, contacts, conversations, messages, emitted,
          running, finished

vars == <<users, instances, contacts, conversations, messages, emitted,
         running, finished>>

store == <<users, instances, contacts, conversations, messages>>

---------------------------------------------------------------------------
(* Bounds of the model *)

\* requests accepted in one behaviour
MaxRequests == 3
\* batch deliveries accepted in one behaviour
MaxBatchRequests == 2
\* items in the data array of one webhook envelope
MaxBatch == 2
\* webhook tasks in flight at the same time
MaxInFlight == 2
\* webhook deliveries of any event accepted in one behaviour
MaxEventRequests == 2
\* first messages accepted in one behaviour
MaxFirstRequests == 2
\* requests accepted in a behaviour of SpecInstance
MaxInstanceRequests == 2

---------------------------------------------------------------------------
(* Values *)

\* a string field that is absent from the payload (JavaScript undefined)
NoValue == "undefined"
\* no row (findUnique returned null): row ids are 1..Len(table)
NoRow == 0

\* A remote identifier is the sequence of its parts, user then suffix; <<>> is a
\* key without remoteJid.
StatusBroadcast == <<"status@broadcast">>
Jid1 == <<"5511999", "@s.whatsapp.net">>
\* a group and an identifier with a suffix the handler does not know
GroupJid == <<"1203630", "@g.us">>
LidJid == <<"777", "@lid">>

InstanceNames == {"shop1", "ghost"}
RemoteJids == {<<>>, StatusBroadcast, Jid1}
\* key.id of an item; NoValue is a key without id
MessageIds == {NoValue, "MSG1", "MSG2"}
PushNames == {<<"Ana">>}

---------------------------------------------------------------------------
(* Optional values.  An optional field or a nullable column is a sequence: *)
(* <<>> when it is absent (undefined, null, SQL NULL), <<v>> when it holds *)
(* v.  A preview built from a template holds the template's parts.         *)

Absent == <<>>
Some(v) == <<v>>
Has(o) == o # Absent
\* a string field that an if or || takes as true: present and not ''
TruthyStr(o) == Has(o) /\ o[1] # ""
\* s || null
OrNull(o) == IF TruthyStr(o) THEN o ELSE Absent
\* s || ''
OrEmpty(o) == IF TruthyStr(o) THEN o ELSE Some("")

---------------------------------------------------------------------------
(* The message payload and its normalisation *)

\* message: {} with none of the variant keys present
EmptyPayload ==
    [conversation |-> Absent, extendedTextMessage |-> Absent,
     imageMessage |-> Absent, videoMessage |-> Absent,
     audioMessage |-> Absent, documentMessage |-> Absent,
     stickerMessage |-> Absent, locationMessage |-> Absent,
     contactMessage |-> Absent, reactionMessage |-> Absent]

\* message: { conversation: text }
TextPayload(text) == [EmptyPayload EXCEPT !.conversation = Some(text)]

getMessageContentImageFirst(message) ==
    IF ~Has(message) THEN [content |-> Absent, type |-> "TEXT"]
    ELSE LET m == message[1] IN
    IF Has(m.imageMessage)
        THEN [content |-> OrNull(m.imageMessage[1].caption), type |-> "IMAGE"]
    ELSE IF TruthyStr(m.conversation)
        THEN [content |-> m.conversation, type |-> "TEXT"]
    ELSE IF Has(m.extendedTextMessage) /\ TruthyStr(m.extendedTextMessage[1].text)
        THEN [content |-> m.extendedTextMessage[1].text, type |-> "TEXT"]
    ELSE IF Has(m.videoMessage)
        THEN [content |-> OrNull(m.videoMessage[1].caption), type |-> "VIDEO"]
    ELSE IF Has(m.audioMessage) THEN [content |-> Absent, type |-> "AUDIO"]
    ELSE IF Has(m.documentMessage) THEN [content |-> Absent, type |-> "DOCUMENT"]
    ELSE IF Has(m.stickerMessage) THEN [content |-> Absent, type |-> "STICKER"]
    ELSE IF Has(m.locationMessage)
        THEN [content |-> <<"{latitude,longitude,name,address}">>
                            \o m.locationMessage[1].name,
              type |-> "LOCATION"]
    ELSE IF Has(m.contactMessage)
        THEN [content |-> <<"{displayName,vcard}">>
                            \o m.contactMessage[1].displayName,
              type |-> "CONTACT"]
    ELSE IF Has(m.reactionMessage)
        THEN [content |-> m.reactionMessage[1].text, type |-> "REACTION"]
    ELSE [content |-> Absent, type |-> "TEXT"]

getMessageContentDocumentBeforeAudio(message) ==
    IF ~Has(message) THEN [content |-> Absent, type |-> "TEXT"]
    ELSE LET m == message[1] IN
    IF TruthyStr(m.conversation)
        THEN [content |-> m.conversation, type |-> "TEXT"]
    ELSE IF Has(m.extendedTextMessage) /\ TruthyStr(m.extendedTextMessage[1].text)
        THEN [content |-> m.extendedTextMessage[1].text, type |-> "TEXT"]
    ELSE IF Has(m.imageMessage)
        THEN [content |-> OrNull(m.imageMessage[1].caption), type |-> "IMAGE"]
    ELSE IF Has(m.videoMessage)
        THEN [content |-> OrNull(m.videoMessage[1].caption), type |-> "VIDEO"]
    ELSE IF Has(m.documentMessage) THEN [content |-> Absent, type |-> "DOCUMENT"]
    ELSE IF Has(m.audioMessage) THEN [content |-> Absent, type |-> "AUDIO"]
    ELSE IF Has(m.stickerMessage) THEN [content |-> Absent, type |-> "STICKER"]
    ELSE IF Has(m.locationMessage)
        THEN [content |-> <<"{latitude,longitude,name,address}">>
                            \o m.locationMessage[1].name,
              type |-> "LOCATION"]
    ELSE IF Has(m.contactMessage)
        THEN [content |-> <<"{displayName,vcard}">>
                            \o m.contactMessage[1].displayName,
              type |-> "CONTACT"]
    ELSE IF Has(m.reactionMessage)
        THEN [content |-> m.reactionMessage[1].text, type |-> "REACTION"]
    ELSE [content |-> Absent, type |-> "TEXT"]

\* getMessageContent: the canonical type and content of messageData.message.
\* Each variant key holds the fields the function reads; the media url,
\* mimetype and file name are copied through to the row and are left out.
getMessageContent(message) ==
    IF ~Has(message) THEN [content |-> Absent, type |-> "TEXT"]
    ELSE LET m == message[1] IN
    IF TruthyStr(m.conversation)
        THEN [content |-> m.conversation, type |-> "TEXT"]
    ELSE IF Has(m.extendedTextMessage) /\ TruthyStr(m.extendedTextMessage[1].text)
        THEN [content |-> m.extendedTextMessage[1].text, type |-> "TEXT"]
    ELSE IF Has(m.imageMessage)
        THEN [content |-> OrNull(m.imageMessage[1].caption), type |-> "IMAGE"]
    ELSE IF Has(m.videoMessage)
        THEN [content |-> OrNull(m.videoMessage[1].caption), type |-> "VIDEO"]
    ELSE IF Has(m.audioMessage)
        THEN [content |-> Absent, type |-> "AUDIO"]
    ELSE IF Has(m.documentMessage)
        THEN [content |-> Absent, type |-> "DOCUMENT"]
    ELSE IF Has(m.stickerMessage)
        THEN [content |-> Absent, type |-> "STICKER"]
    ELSE IF Has(m.locationMessage)
        THEN [content |-> <<"{latitude,longitude,name,address}">>
                            \o m.locationMessage[1].name,
              type |-> "LOCATION"]
    ELSE IF Has(m.contactMessage)
        THEN [content |-> <<"{displayName,vcard}">>
                            \o m.contactMessage[1].displayName,
              type |-> "CONTACT"]
    ELSE IF Has(m.reactionMessage)
        THEN [content |-> m.reactionMessage[1].text, type |-> "REACTION"]
    ELSE [content |-> Absent, type |-> "TEXT"]

\* getLastMessagePreview: the conversation's last-message preview
getLastMessagePreview(type, content) ==
    CASE type = "TEXT" -> OrEmpty(content)
      [] type = "IMAGE" ->
            IF TruthyStr(content) THEN <<"[imagem]">> \o content ELSE <<"[imagem]">>
      [] type = "VIDEO" ->
            IF TruthyStr(content) THEN <<"[video]">> \o content ELSE <<"[video]">>
      [] type = "AUDIO" -> <<"[audio]">>
      [] type = "DOCUMENT" -> <<"[documento]">>
      [] type = "STICKER" -> <<"[figurinha]">>
      [] type = "LOCATION" -> <<"[localizacao]">>
      [] type = "CONTACT" -> <<"[contato]">>
      [] type = "REACTION" -> OrEmpty(content)
      [] OTHER -> <<"">>

---------------------------------------------------------------------------
(* The store: rows are records, a row's id is its index in the table *)

Rows(table) == 1..Len(table)

\* prisma.instance.findUnique({ where: { name } })
FindInstance(name) ==
    IF \E i \in Rows(instances) : instances[i].name = name
    THEN CHOOSE i \in Rows(instances) : instances[i].name = name
    ELSE NoRow

\* prisma.contact.findUnique({ where: { instanceId_remoteJid } })
FindContact(instanceId, remoteJid) ==
    IF \E i \in Rows(contacts) :
          contacts[i].instanceId = instanceId /\ contacts[i].remoteJid = remoteJid
    THEN CHOOSE i \in Rows(contacts) :
          contacts[i].instanceId = instanceId /\ contacts[i].remoteJid = remoteJid
    ELSE NoRow

\* prisma.conversation.findUnique({ where: { instanceId_contactId } })
FindConversation(instanceId, contactId) ==
    IF \E i \in Rows(conversations) :
          conversations[i].instanceId = instanceId
          /\ conversations[i].contactId = contactId
    THEN CHOOSE i \in Rows(conversations) :
          conversations[i].instanceId = instanceId
          /\ conversations[i].contactId = contactId
    ELSE NoRow

\* prisma.message.findUnique({ where: { instanceId_messageId } })
FindMessage(instanceId, messageId) ==
    IF \E i \in Rows(messages) :
          messages[i].instanceId = instanceId /\ messages[i].messageId = messageId
    THEN CHOOSE i \in Rows(messages) :
          messages[i].instanceId = instanceId /\ messages[i].messageId = messageId
    ELSE NoRow

\* The unique indexes of the schema: TRUE when the index admits a new row with
\* the key, FALSE when the insert fails with a uniqueness violation.
contacts_instanceId_remoteJid_key(instanceId, remoteJid) ==
    FindContact(instanceId, remoteJid) = NoRow

conversations_without_unique_index(instanceId, contactId) == TRUE

conversations_instanceId_contactId_key(instanceId, contactId) ==
    FindConversation(instanceId, contactId) = NoRow

messages_without_unique_index(instanceId, messageId) == TRUE

messages_instanceId_messageId_key(instanceId, messageId) ==
    FindMessage(instanceId, messageId) = NoRow

---------------------------------------------------------------------------
(* Real-time fan-out: the bag of the events emitted so far *)

\* io.to(`conversation:${room}`).emit(ev, ...): id is the id of the message or
\* conversation in the payload, status the status the payload carries
ToRoom(ev, room, id, status) ==
    [ev |-> ev, scope |-> "conversation", room |-> room, id |-> id,
     status |-> status]
\* io.emit(ev, ...)
ToAll(ev, id, status) ==
    [ev |-> ev, scope |-> "global", room |-> 0, id |-> id, status |-> status]

Emit(bag, events) == bag (+) SetToBag(events)

---------------------------------------------------------------------------
(* Tasks: one per accepted HTTP request *)

\* the locals of a handler, cleared between loop iterations and at the end
NoLocals ==
    [instanceId |-> NoRow, contactId |-> NoRow, conversationId |-> NoRow,
     conversationStatus |-> "", messageRow |-> NoRow, messageStatus |-> "",
     qrCode |-> Absent, gatewayId |-> NoValue, instanceStatus |-> "",
     newStatus |-> "", records |-> <<>>, recIdx |-> 0, usersCount |-> 0]

Task(kind, pc, event, instanceName, data, target) ==
    [kind |-> kind, pc |-> pc, event |-> event, instanceName |-> instanceName,
     data |-> data, isArray |-> FALSE, idx |-> 0, target |-> target,
     local |-> NoLocals, response |-> 0]

\* res.status(code).json(...): the request is answered and the task ends; the
\* record keeps the handler's position and locals as they were at the answer
Respond(t, code) == [t EXCEPT !.pc = "done", !.response = code]

\* a new task u enters: it is being handled, or was answered at once
Enter(u) ==
    IF u.pc = "done"
    THEN finished' = finished (+) SetToBag({u}) /\ UNCHANGED running
    ELSE running' = running (+) SetToBag({u}) /\ UNCHANGED finished

\* the task t takes a step and becomes u
Move(t, u) ==
    IF u.pc = "done"
    THEN /\ running' = running (-) SetToBag({t})
         /\ finished' = finished (+) SetToBag({u})
    ELSE /\ running' = (running (-) SetToBag({t})) (+) SetToBag({u})
         /\ UNCHANGED finished

Running == BagToSet(running)
Finished == BagToSet(finished)

At(t, kind, pc) == t \in Running /\ t.kind = kind /\ t.pc = pc

Accepted == BagCardinality(running) + BagCardinality(finished)

---------------------------------------------------------------------------
(* handleWebhook: event-name normalisation and dispatch *)

\* An event name is the sequence of its words and separators.
\* String.prototype.toUpperCase on one word
ToUpperCase(w) ==
    CASE w = "messages" -> "MESSAGES"
      [] w = "upsert" -> "UPSERT"
      [] w = "update" -> "UPDATE"
      [] w = "updated" -> "UPDATED"
      [] w = "connection" -> "CONNECTION"
      [] w = "qrcode" -> "QRCODE"
      [] w = "contacts" -> "CONTACTS"
      [] w = "presence" -> "PRESENCE"
      [] OTHER -> w

normalizedEventKeepsDots(event) ==
    [i \in 1..Len(event) |-> ToUpperCase(event[i])]

\* event.toUpperCase().replace(/\./g, '_')
normalizedEvent(event) ==
    [i \in 1..Len(event) |->
        IF event[i] = "." THEN "_" ELSE ToUpperCase(event[i])]

MESSAGES_UPSERT == <<"MESSAGES", "_", "UPSERT">>
MESSAGES_UPDATE == <<"MESSAGES", "_", "UPDATE">>
CONNECTION_UPDATE == <<"CONNECTION", "_", "UPDATE">>
QRCODE_UPDATED == <<"QRCODE", "_", "UPDATED">>
QRCODE_UPDATE == <<"QRCODE", "_", "UPDATE">>

\* Array.isArray(data) ? data : [data]
AsArray(data) == IF data.isArray THEN data.value ELSE <<data.value>>

---------------------------------------------------------------------------
(* handleMessagesUpsert *)

\* The head of the for loop, from item i on: the items skipped before any
\* awaited call (no key or no remoteJid, or the status pseudo-identifier) are
\* passed over; the result is the index of the first item that reaches the
\* instance lookup, or 0 when the array is exhausted.
RECURSIVE UpsertLoopHeadKeepsStatus(_, _)
UpsertLoopHeadKeepsStatus(data, i) ==
    IF i > Len(data) THEN 0
    ELSE IF data[i].remoteJid = <<>>
         THEN UpsertLoopHeadKeepsStatus(data, i + 1)
         ELSE i

RECURSIVE UpsertLoopHead(_, _)
UpsertLoopHead(data, i) ==
    IF i > Len(data) THEN 0
    ELSE IF data[i].remoteJid = <<>> \/ data[i].remoteJid = StatusBroadcast
         THEN UpsertLoopHead(data, i + 1)
         ELSE i

\* continue: go on with item i, or return to handleWebhook, which answers 200
UpsertContinue(t, i) ==
    LET j == UpsertLoopHead(t.data, i) IN
    IF j = 0 THEN Respond(t, 200)
    ELSE [t EXCEPT !.pc = "upsert:instance.findUnique", !.idx = j,
                   !.local = NoLocals]

\* an awaited call rejects: no try/catch inside the loop, so the exception
\* leaves handleMessagesUpsert and reaches the catch of handleWebhook
WebhookCatch(t) == Respond(t, 500)

\* remoteJid.replace('@s.whatsapp.net', '').replace('@g.us', '')
phoneNumber(remoteJid) ==
    SelectSeq(remoteJid, LAMBDA part : part \notin {"@s.whatsapp.net", "@g.us"})

\* remoteJid.endsWith('@g.us')
isGroup(remoteJid) == remoteJid[Len(remoteJid)] = "@g.us"

\* const instance = await prisma.instance.findUnique(...); if (!instance) continue
UpsertFindInstance(t) ==
    /\ At(t, "webhook", "upsert:instance.findUnique")
    /\ LET instance == FindInstance(t.instanceName)
       IN IF instance = NoRow
          THEN Move(t, UpsertContinue(t, t.idx + 1))
          ELSE Move(t, [t EXCEPT !.pc = "upsert:contact.findUnique",
                                    !.local.instanceId = instance])
    /\ UNCHANGED <<store, emitted>>

\* let contact = await prisma.contact.findUnique(...)
\* (a contact created by this handler always has a pushName, so the backfill
\* branch of the else-if is not taken for the contacts of this model)
UpsertFindContact(t) ==
    /\ At(t, "webhook", "upsert:contact.findUnique")
    /\ LET contact == FindContact(t.local.instanceId, t.data[t.idx].remoteJid)
       IN IF contact = NoRow
          THEN Move(t, [t EXCEPT !.pc = "upsert:contact.create"])
          ELSE Move(t, [t EXCEPT !.pc = "upsert:conversation.findUnique",
                                    !.local.contactId = contact])
    /\ UNCHANGED <<store, emitted>>

\* contact = await prisma.contact.create(...)
UpsertCreateContact(t) ==
    /\ At(t, "webhook", "upsert:contact.create")
    /\ LET item == t.data[t.idx]
       IN IF contacts_instanceId_remoteJid_key(t.local.instanceId, item.remoteJid)
          THEN /\ contacts' = Append(contacts,
                     [instanceId |-> t.local.instanceId,
                      remoteJid |-> item.remoteJid,
                      pushName |-> IF TruthyStr(item.pushName) THEN item.pushName
                                   ELSE phoneNumber(item.remoteJid),
                      phoneNumber |-> phoneNumber(item.remoteJid),
                      isGroup |-> isGroup(item.remoteJid)])
               /\ Move(t, [t EXCEPT !.pc = "upsert:conversation.findUnique",
                                       !.local.contactId = Len(contacts) + 1])
          ELSE /\ Move(t, WebhookCatch(t))
               /\ UNCHANGED contacts
    /\ UNCHANGED <<users, instances, conversations, messages, emitted>>

\* let conversation = await prisma.conversation.findUnique(...)
UpsertFindConversation(t) ==
    /\ At(t, "webhook", "upsert:conversation.findUnique")
    /\ LET conversation == FindConversation(t.local.instanceId, t.local.contactId)
       IN IF conversation = NoRow
          THEN Move(t, [t EXCEPT !.pc = "upsert:conversation.create"])
          ELSE Move(t, [t EXCEPT !.pc = "upsert:message.findUnique",
                             !.local.conversationId = conversation,
                             !.local.conversationStatus =
                                 conversations[conversation].status])
    /\ UNCHANGED <<store, emitted>>

\* conversation = await prisma.conversation.create({ ..., status: 'OPEN' })
UpsertCreateConversation(t) ==
    /\ At(t, "webhook", "upsert:conversation.create")
    /\ IF conversations_instanceId_contactId_key(t.local.instanceId,
                                                 t.local.contactId)
       THEN /\ conversations' = Append(conversations,
                  [instanceId |-> t.local.instanceId,
                   contactId |-> t.local.contactId,
                   status |-> "OPEN", unreadCount |-> 0,
                   lastMessage |-> Absent])
            /\ Move(t, [t EXCEPT !.pc = "upsert:message.findUnique",
                              !.local.conversationId = Len(conversations) + 1,
                              !.local.conversationStatus = "OPEN"])
       ELSE /\ Move(t, WebhookCatch(t))
            /\ UNCHANGED conversations
    /\ UNCHANGED <<users, instances, contacts, messages, emitted>>

\* if (existingMessage) continue
ExistingMessageSkipsInsertOnly(t, existingMessage) ==
    IF existingMessage # NoRow
    THEN [t EXCEPT !.pc = "upsert:conversation.update"]
    ELSE [t EXCEPT !.pc = "upsert:message.create"]

ExistingMessageContinue(t, existingMessage) ==
    IF existingMessage # NoRow
    THEN UpsertContinue(t, t.idx + 1)
    ELSE [t EXCEPT !.pc = "upsert:message.create"]

\* const existingMessage = await prisma.message.findUnique(...): the client
\* rejects the query when key.id is undefined (a validation error)
UpsertFindMessage(t) ==
    /\ At(t, "webhook", "upsert:message.findUnique")
    /\ LET id == t.data[t.idx].id
       IN IF id = NoValue
          THEN Move(t, WebhookCatch(t))
          ELSE Move(t, ExistingMessageContinue(t,
                              FindMessage(t.local.instanceId, id)))
    /\ UNCHANGED <<store, emitted>>

InitialStatusDelivered(fromMe) == "DELIVERED"

\* status: key.fromMe ? 'SENT' : 'DELIVERED'
InitialStatus(fromMe) == IF fromMe THEN "SENT" ELSE "DELIVERED"

\* const message = await prisma.message.create(...)
UpsertCreateMessage(t) ==
    /\ At(t, "webhook", "upsert:message.create")
    /\ LET item == t.data[t.idx]
           parsed == getMessageContent(item.message)
       IN IF messages_instanceId_messageId_key(t.local.instanceId, item.id)
          THEN /\ messages' = Append(messages,
                     [messageId |-> item.id,
                      content |-> parsed.content,
                      type |-> parsed.type,
                      status |-> InitialStatus(item.fromMe),
                      isFromMe |-> item.fromMe,
                      instanceId |-> t.local.instanceId,
                      contactId |-> t.local.contactId,
                      conversationId |-> t.local.conversationId])
               /\ Move(t, [t EXCEPT !.pc = "upsert:conversation.update",
                                       !.local.messageRow = Len(messages) + 1])
          ELSE /\ Move(t, WebhookCatch(t))
               /\ UNCHANGED messages
    /\ UNCHANGED <<users, instances, contacts, conversations, emitted>>

UpdateDataCountsOutbound(row, fromMe, lastMessage, readStatus) ==
    [row EXCEPT !.lastMessage = lastMessage,
                !.unreadCount = @ + 1,
                !.status = IF ~fromMe /\ readStatus = "RESOLVED" THEN "OPEN" ELSE @]

UpdateDataSetsOne(row, fromMe, lastMessage, readStatus) ==
    [row EXCEPT !.lastMessage = lastMessage,
                !.unreadCount = IF fromMe THEN @ ELSE 1,
                !.status = IF ~fromMe /\ readStatus = "RESOLVED" THEN "OPEN" ELSE @]

UpdateDataKeepsStatus(row, fromMe, lastMessage, readStatus) ==
    [row EXCEPT !.lastMessage = lastMessage,
                !.unreadCount = IF fromMe THEN @ ELSE @ + 1]

\* updateData: the last-message preview always; for a message that is not
\* fromMe the unread increment, and status OPEN when the conversation read
\* earlier by this handler was RESOLVED
UpdateData(row, fromMe, lastMessage, readStatus) ==
    [row EXCEPT !.lastMessage = lastMessage,
                !.unreadCount = IF fromMe THEN @ ELSE @ + 1,
                !.status = IF ~fromMe /\ readStatus = "RESOLVED" THEN "OPEN" ELSE @]

\* const updatedConversation = await prisma.conversation.update(...), then the
\* three emits, then the next iteration of the loop
UpsertUpdateConversation(t) ==
    /\ At(t, "webhook", "upsert:conversation.update")
    /\ LET item == t.data[t.idx]
           parsed == getMessageContent(item.message)
           c == t.local.conversationId
           updated == UpdateData(conversations[c], item.fromMe,
                          getLastMessagePreview(parsed.type, parsed.content),
                          t.local.conversationStatus)
       IN /\ conversations' = [conversations EXCEPT ![c] = updated]
          /\ emitted' = Emit(emitted,
                 {ToRoom("message:new", c, t.local.messageRow, ""),
                  ToAll("message:new", t.local.messageRow, ""),
                  ToAll("conversation:update", c, updated.status)})
          /\ Move(t, UpsertContinue(t, t.idx + 1))
    /\ UNCHANGED <<users, instances, contacts, messages>>

---------------------------------------------------------------------------
(* handleMessagesUpdate *)

\* The head of the for loop from item i on: items without key.id are passed
\* over; 0 when the array is exhausted.
RECURSIVE UpdateLoopHead(_, _)
UpdateLoopHead(data, i) ==
    IF i > Len(data) THEN 0
    ELSE IF data[i].id = NoValue THEN UpdateLoopHead(data, i + 1)
         ELSE i

UpdateContinue(t, i) ==
    LET j == UpdateLoopHead(t.data, i) IN
    IF j = 0 THEN Respond(t, 200)
    ELSE [t EXCEPT !.pc = "update:instance.findUnique", !.idx = j,
                   !.local = NoLocals]

newStatusSwapped(current, code) ==
    CASE code = 2 -> "SENT"
      [] code = 3 -> "READ"
      [] code = 4 -> "DELIVERED"
      [] OTHER -> current

newStatusNeverBack(current, code) ==
    LET rank == [st \in {"PENDING", "SENT", "DELIVERED", "READ", "FAILED"} |->
                    CASE st = "SENT" -> 1 [] st = "DELIVERED" -> 2
                      [] st = "READ" -> 3 [] OTHER -> 0]
        new == CASE code = 2 -> "SENT" [] code = 3 -> "DELIVERED"
                 [] code = 4 -> "READ" [] OTHER -> current
    IN IF rank[new] < rank[current] THEN current ELSE new

\* let newStatus = message.status; if (update.update?.status) switch (...)
\* The code 0 stands for an item without update.status.
newStatus(current, code) ==
    CASE code = 2 -> "SENT"
      [] code = 3 -> "DELIVERED"
      [] code = 4 -> "READ"
      [] OTHER -> current

AlwaysWrites(new, current) == TRUE

\* if (newStatus !== message.status)
StatusChanges(new, current) == new # current

UpdateFindInstance(t) ==
    /\ At(t, "webhook", "update:instance.findUnique")
    /\ LET instance == FindInstance(t.instanceName)
       IN IF instance = NoRow
          THEN Move(t, UpdateContinue(t, t.idx + 1))
          ELSE Move(t, [t EXCEPT !.pc = "update:message.findUnique",
                                    !.local.instanceId = instance])
    /\ UNCHANGED <<store, emitted>>

\* const message = await prisma.message.findUnique(...); if (!message) continue;
\* then the status mapping and the comparison with message.status
UpdateFindMessage(t) ==
    /\ At(t, "webhook", "update:message.findUnique")
    /\ LET message == FindMessage(t.local.instanceId, t.data[t.idx].id)
           found == [t EXCEPT !.local.messageRow = message,
                              !.local.messageStatus = messages[message].status,
                              !.local.conversationId =
                                  messages[message].conversationId]
       IN IF message = NoRow
          THEN Move(t, UpdateContinue(t, t.idx + 1))
          ELSE IF StatusChanges(newStatus(messages[message].status,
                                          t.data[t.idx].status),
                                messages[message].status)
          THEN Move(t, [found EXCEPT !.pc = "update:message.update"])
          ELSE Move(t, UpdateContinue(found, t.idx + 1))
    /\ UNCHANGED <<store, emitted>>

\* await prisma.message.update({ data: { status: newStatus } }), then the emit
\* to the conversation room
UpdateMessageStatus(t) ==
    /\ At(t, "webhook", "update:message.update")
    /\ LET new == newStatus(t.local.messageStatus, t.data[t.idx].status)
       IN /\ messages' = [messages EXCEPT ![t.local.messageRow].status = new]
          /\ emitted' = Emit(emitted,
                 {ToRoom("message:update", t.local.conversationId,
                         t.local.messageRow, new)})
          /\ Move(t, UpdateContinue(t, t.idx + 1))
    /\ UNCHANGED <<users, instances, contacts, conversations>>

---------------------------------------------------------------------------
(* handleConnectionUpdate and handleQrCodeUpdate.  Both receive the data of *)
(* the envelope as it came: of an array, data.state and data.qrcode are     *)
(* undefined.                                                               *)

\* data.state
ConnectionState(t) == IF t.isArray THEN NoValue ELSE t.data[1].state

\* data.qrcode?.base64
QrBase64(t) ==
    IF t.isArray THEN Absent
    ELSE IF Has(t.data[1].qrcode) THEN t.data[1].qrcode[1].base64
    ELSE Absent

\* let status = 'DISCONNECTED'; switch (data.state) { ... }
connectionStatus(state) ==
    CASE state = "open" -> "CONNECTED"
      [] state = "connecting" -> "CONNECTING"
      [] state = "close" -> "DISCONNECTED"
      [] OTHER -> "DISCONNECTED"

\* const instance = await prisma.instance.findUnique(...); if (!instance) return
ConnectionFindInstance(t) ==
    /\ At(t, "webhook", "connection:instance.findUnique")
    /\ LET instance == FindInstance(t.instanceName)
       IN IF instance = NoRow
          THEN Move(t, Respond(t, 200))
          ELSE Move(t, [t EXCEPT !.pc = "connection:instance.update",
                                    !.local.instanceId = instance,
                                    !.local.qrCode = instances[instance].qrCode])
    /\ UNCHANGED <<store, emitted>>

\* await prisma.instance.update({ data: { status, qrCode: status ===
\* 'CONNECTED' ? null : instance.qrCode } }); io.emit('instance:status', ...)
ConnectionUpdateInstance(t) ==
    /\ At(t, "webhook", "connection:instance.update")
    /\ LET status == connectionStatus(ConnectionState(t))
           i == t.local.instanceId
       IN /\ instances' = [instances EXCEPT
                 ![i].status = status,
                 ![i].qrCode = IF status = "CONNECTED" THEN Absent
                               ELSE t.local.qrCode]
          /\ emitted' = Emit(emitted, {ToAll("instance:status", i, status)})
          /\ Move(t, Respond(t, 200))
    /\ UNCHANGED <<users, contacts, conversations, messages>>

\* const instance = await prisma.instance.findUnique(...); if (!instance)
\* return; if (data.qrcode?.base64) { ... }
QrCodeFindInstance(t) ==
    /\ At(t, "webhook", "qrcode:instance.findUnique")
    /\ LET instance == FindInstance(t.instanceName)
       IN IF instance = NoRow \/ ~TruthyStr(QrBase64(t))
          THEN Move(t, Respond(t, 200))
          ELSE Move(t, [t EXCEPT !.pc = "qrcode:instance.update",
                                    !.local.instanceId = instance])
    /\ UNCHANGED <<store, emitted>>

\* await prisma.instance.update({ data: { qrCode: data.qrcode.base64, status:
\* 'QRCODE' } }); io.emit('instance:qrcode', ...), whose payload carries the
\* pairing code
QrCodeUpdateInstance(t) ==
    /\ At(t, "webhook", "qrcode:instance.update")
    /\ LET i == t.local.instanceId
       IN /\ instances' = [instances EXCEPT ![i].status = "QRCODE",
                                            ![i].qrCode = QrBase64(t)]
          /\ emitted' = Emit(emitted,
                 {ToAll("instance:qrcode", i, QrBase64(t)[1])})
          /\ Move(t, Respond(t, 200))
    /\ UNCHANGED <<users, contacts, conversations, messages>>

---------------------------------------------------------------------------
(* handleWebhook *)

\* the synchronous start of handleWebhook, up to the first awaited call of the
\* handler the switch selects (CONTACTS_* and unknown names answer 200)
Dispatch(t) ==
    LET name == normalizedEvent(t.event) IN
    IF name = MESSAGES_UPSERT THEN UpsertContinue(t, 1)
    ELSE IF name = MESSAGES_UPDATE THEN UpdateContinue(t, 1)
    ELSE IF name = CONNECTION_UPDATE
        THEN [t EXCEPT !.pc = "connection:instance.findUnique"]
    ELSE IF name \in {QRCODE_UPDATED, QRCODE_UPDATE}
        THEN [t EXCEPT !.pc = "qrcode:instance.findUnique"]
    ELSE Respond(t, 200)

\* a webhook envelope { event, instance, data } arrives, as one of at most
\* maxRequests requests
HandleWebhook(envelope, maxRequests) ==
    /\ Accepted < maxRequests
    /\ BagCardinality(running) < MaxInFlight
    /\ Enter(Dispatch([Task("webhook", "start", envelope.event,
                            envelope.instance, AsArray(envelope.data), NoRow)
                          EXCEPT !.isArray = envelope.data.isArray]))
    /\ UNCHANGED <<store, emitted>>

---------------------------------------------------------------------------
(* markAsRead and resolveConversation *)

\* a POST /conversations/:conversationId/messages/read arrives
MarkAsRead(conversationId) ==
    /\ Accepted < MaxRequests
    /\ BagCardinality(running) < MaxInFlight
    /\ Enter(Task("markAsRead", "read:conversation.findUnique", <<>>, "", <<>>,
                  conversationId))
    /\ UNCHANGED <<store, emitted>>

\* const conversation = await prisma.conversation.findUnique(...): 404 when
\* there is none.  The gateway's read receipt that follows is sent only for a
\* CONNECTED instance, in a try/catch of its own, and touches no row.
MarkAsReadFindConversation(t) ==
    /\ At(t, "markAsRead", "read:conversation.findUnique")
    /\ IF t.target \notin Rows(conversations)
       THEN Move(t, Respond(t, 404))
       ELSE Move(t, [t EXCEPT !.pc = "read:message.updateMany"])
    /\ UNCHANGED <<store, emitted>>

UnreadOfAnyOrigin(row, conversationId) ==
    row.conversationId = conversationId /\ row.status # "READ"

\* where: { conversationId, isFromMe: false, status: { not: 'READ' } }
UnreadInbound(row, conversationId) ==
    /\ row.conversationId = conversationId
    /\ ~row.isFromMe
    /\ row.status # "READ"

\* await prisma.message.updateMany({ where, data: { status: 'READ' } })
MarkAsReadUpdateMany(t) ==
    /\ At(t, "markAsRead", "read:message.updateMany")
    /\ messages' = [i \in Rows(messages) |->
              IF UnreadInbound(messages[i], t.target)
              THEN [messages[i] EXCEPT !.status = "READ"]
              ELSE messages[i]]
       /\ Move(t, [t EXCEPT !.pc = "read:conversation.update"])
    /\ UNCHANGED <<users, instances, contacts, conversations, emitted>>

\* await prisma.conversation.update({ data: { unreadCount: 0 } }); res.json
MarkAsReadResetUnread(t) ==
    /\ At(t, "markAsRead", "read:conversation.update")
    /\ conversations' = [conversations EXCEPT ![t.target].unreadCount = 0]
       /\ Move(t, Respond(t, 200))
    /\ UNCHANGED <<users, instances, contacts, messages, emitted>>

\* resolveConversation: one awaited update, { status: 'RESOLVED' }; for an id
\* without a row the update rejects and nothing changes
resolveConversation(id) ==
    /\ id \in Rows(conversations)
    /\ conversations' = [conversations EXCEPT ![id].status = "RESOLVED"]
    /\ UNCHANGED <<users, instances, contacts, messages, emitted, running, finished>>

\* the statuses the schema of updateConversation accepts
ConversationStatuses == {"OPEN", "PENDING", "RESOLVED", "SPAM"}

\* updateConversation with a status in the body: one awaited update; for an
\* id without a row the update rejects and nothing changes
updateConversation(id, status) ==
    /\ id \in Rows(conversations)
    /\ conversations' = [conversations EXCEPT ![id].status = status]
    /\ UNCHANGED <<users, instances, contacts, messages, emitted, running,
                   finished>>

---------------------------------------------------------------------------
(* sendTextMessage, sendMediaMessage and sendAudioMessage: the three have   *)
(* the same steps and differ in the body they parse and in the type,        *)
(* content and preview of the message they store.                           *)

SendKinds == {"sendText", "sendMedia", "sendAudio"}

\* schema.parse(req.body): the text of a text message is not empty
ValidBody(kind, body) == kind = "sendText" => body.text # ""

\* type of the stored message
SentType(kind, body) ==
    CASE kind = "sendText" -> "TEXT"
      [] kind = "sendAudio" -> "AUDIO"
      [] kind = "sendMedia" ->
            CASE body.mediatype = "image" -> "IMAGE"
              [] body.mediatype = "video" -> "VIDEO"
              [] body.mediatype = "document" -> "DOCUMENT"
              [] body.mediatype = "audio" -> "AUDIO"

\* content of the stored message: text, data.caption || null, or none
SentContent(kind, body) ==
    CASE kind = "sendText" -> Some(body.text)
      [] kind = "sendAudio" -> Absent
      [] kind = "sendMedia" -> OrNull(body.caption)

\* lastMessage of the conversation: text, data.caption || `[${mediatype}]`,
\* or '[audio]'
SentPreview(kind, body) ==
    CASE kind = "sendText" -> Some(body.text)
      [] kind = "sendAudio" -> <<"[audio]">>
      [] kind = "sendMedia" ->
            IF TruthyStr(body.caption) THEN body.caption
            ELSE <<"[", body.mediatype, "]">>

\* a POST /conversations/:conversationId/messages/{text,media,audio} arrives;
\* a body the schema rejects is answered 400 before any awaited call
Send(kind, conversationId, body) ==
    /\ Accepted < MaxRequests
    /\ BagCardinality(running) < MaxInFlight
    /\ LET t == Task(kind, "send:conversation.findUnique", <<>>, "", <<body>>,
                     conversationId)
       IN Enter(IF ValidBody(kind, body) THEN t ELSE Respond(t, 400))
    /\ UNCHANGED <<store, emitted>>

RejectsOnlyDisconnected(status) == status = "DISCONNECTED"

\* conversation.instance.status !== 'CONNECTED'
InstanceNotConnected(status) == status # "CONNECTED"

\* const conversation = await prisma.conversation.findUnique({ include: {
\* contact, instance } }): 404 without a row, 400 when the instance is not
\* CONNECTED
SendFindConversation(t) ==
    /\ t \in Running /\ t.kind \in SendKinds
    /\ t.pc = "send:conversation.findUnique"
    /\ IF t.target \notin Rows(conversations)
       THEN Move(t, Respond(t, 404))
       ELSE LET conversation == conversations[t.target] IN
            IF InstanceNotConnected(instances[conversation.instanceId].status)
            THEN Move(t, Respond(t, 400))
            ELSE Move(t, [t EXCEPT !.pc = "send:gateway",
                                   !.local.instanceId = conversation.instanceId,
                                   !.local.contactId = conversation.contactId,
                                   !.local.conversationId = t.target])
    /\ UNCHANGED <<store, emitted>>

\* the ids the gateway gives the messages it sends
GatewayIds == {"SENT1", "SENT2"}

\* the ids the gateway has not given yet
FreshGatewayIds ==
    {id \in GatewayIds :
        /\ \A i \in Rows(messages) : messages[i].messageId # id
        /\ \A u \in Running \cup Finished : u.local.gatewayId # id}

\* const response = await evolutionApi.sendText(...) (sendMedia, sendAudio):
\* the call fails and the catch answers 500, or it returns, with the id of
\* the message in response.key.id or without one
SendGateway(t) ==
    /\ t \in Running /\ t.kind \in SendKinds /\ t.pc = "send:gateway"
    /\ \/ Move(t, Respond(t, 500))
       \/ \E id \in FreshGatewayIds \cup {NoValue} :
             Move(t, [t EXCEPT !.pc = "send:message.create",
                               !.local.gatewayId = id])
    /\ UNCHANGED <<store, emitted>>

\* the values of Date.now() when a message is stored
Times == 1..2

\* response.key?.id || `local_${Date.now()}`
SentMessageId(gatewayId, now) ==
    IF gatewayId # NoValue /\ gatewayId # "" THEN gatewayId
    ELSE "local_" \o ToString(now)

\* const message = await prisma.message.create(...): a uniqueness violation
\* reaches the catch, which answers 500
SendCreateMessage(t) ==
    /\ t \in Running /\ t.kind \in SendKinds /\ t.pc = "send:message.create"
    /\ \E now \in Times :
          LET id == SentMessageId(t.local.gatewayId, now)
              body == t.data[1]
          IN IF messages_instanceId_messageId_key(t.local.instanceId, id)
             THEN /\ messages' = Append(messages,
                        [messageId |-> id,
                         content |-> SentContent(t.kind, body),
                         type |-> SentType(t.kind, body),
                         status |-> "SENT",
                         isFromMe |-> TRUE,
                         instanceId |-> t.local.instanceId,
                         contactId |-> t.local.contactId,
                         conversationId |-> t.local.conversationId])
                  /\ Move(t, [t EXCEPT !.pc = "send:conversation.update",
                                       !.local.messageRow = Len(messages) + 1])
             ELSE /\ Move(t, Respond(t, 500))
                  /\ UNCHANGED messages
    /\ UNCHANGED <<users, instances, contacts, conversations, emitted>>

\* await prisma.conversation.update({ data: { lastMessage, lastMessageAt } }),
\* the two emits and res.status(201)
SendUpdateConversation(t) ==
    /\ t \in Running /\ t.kind \in SendKinds
    /\ t.pc = "send:conversation.update"
    /\ conversations' = [conversations EXCEPT
           ![t.target].lastMessage = SentPreview(t.kind, t.data[1])]
    /\ emitted' = Emit(emitted,
           {ToRoom("message:new", t.target, t.local.messageRow, ""),
            ToAll("conversation:update", t.target, "")})
    /\ Move(t, Respond(t, 201))
    /\ UNCHANGED <<users, instances, contacts, messages>>

---------------------------------------------------------------------------
(* The instance controller: connectInstance, getConnectionState,            *)
(* logoutInstance, restartInstance. Each begins with                        *)
(* prisma.instance.findUnique({ where: { id } }) and answers 404 without a  *)
(* row; a gateway call that fails reaches the catch, which answers 500.     *)

InstanceKinds == {"connect", "connectionState", "logout", "restart"}

\* the first awaited call of each handler and the gateway call after it
InstanceLookup(kind) ==
    CASE kind = "connect" -> "connect:instance.findUnique"
      [] kind = "connectionState" -> "state:instance.findUnique"
      [] kind = "logout" -> "logout:instance.findUnique"
      [] kind = "restart" -> "restart:instance.findUnique"
      [] kind = "sync" -> "sync:instance.findUnique"

\* a request to /instances/:id/{connect,status,logout,restart,sync} arrives
InstanceRequest(kind, id, maxRequests) ==
    /\ Accepted < maxRequests
    /\ BagCardinality(running) < MaxInFlight
    /\ Enter(Task(kind, InstanceLookup(kind), <<>>, "", <<>>, id))
    /\ UNCHANGED <<store, emitted>>

\* const instance = await prisma.instance.findUnique({ where: { id } });
\* if (!instance) return 404
InstanceFindUnique(t, kind, next) ==
    /\ At(t, kind, InstanceLookup(kind))
    /\ IF t.target \notin Rows(instances)
       THEN Move(t, Respond(t, 404))
       ELSE Move(t, [t EXCEPT !.pc = next,
                              !.local.instanceId = t.target,
                              !.local.instanceStatus = instances[t.target].status,
                              !.local.qrCode = instances[t.target].qrCode])
    /\ UNCHANGED <<store, emitted>>

ConnectFindInstance(t) == InstanceFindUnique(t, "connect", "connect:gateway")

\* the pairing codes the gateway returns to a connect request
ConnectCodes == {Absent, Some("QR2")}

\* const response = await evolutionApi.connectInstance(...);
\* if (response.base64) { await prisma.instance.update(...) }
ConnectGateway(t) ==
    /\ At(t, "connect", "connect:gateway")
    /\ \/ Move(t, Respond(t, 500))
       \/ \E base64 \in ConnectCodes :
             IF TruthyStr(base64)
             THEN Move(t, [t EXCEPT !.pc = "connect:instance.update",
                                    !.local.qrCode = base64])
             ELSE Move(t, Respond(t, 200))
    /\ UNCHANGED <<store, emitted>>

\* await prisma.instance.update({ data: { qrCode: response.base64, status:
\* 'QRCODE' } }); return res.json(...)
ConnectUpdateInstance(t) ==
    /\ At(t, "connect", "connect:instance.update")
    /\ instances' = [instances EXCEPT ![t.target].status = "QRCODE",
                                      ![t.target].qrCode = t.local.qrCode]
    /\ Move(t, Respond(t, 200))
    /\ UNCHANGED <<users, contacts, conversations, messages, emitted>>

StateFindInstance(t) == InstanceFindUnique(t, "connectionState", "state:gateway")

\* the states the gateway reports: response?.instance?.state ||
\* response?.state || 'close'
ReportedStates == {"open", "connecting", "close", NoValue}

\* let status = 'DISCONNECTED'; if (state === 'open') ... else if (state ===
\* 'connecting') ...
reportedStatus(state) ==
    IF state = "open" THEN "CONNECTED"
    ELSE IF state = "connecting" THEN "CONNECTING"
    ELSE "DISCONNECTED"

\* const response = await evolutionApi.getConnectionState(...);
\* if (instance.status !== status) { await prisma.instance.update(...) }
StateGateway(t) ==
    /\ At(t, "connectionState", "state:gateway")
    /\ \/ Move(t, Respond(t, 500))
       \/ \E reported \in ReportedStates :
             LET state == IF reported = NoValue THEN "close" ELSE reported
                 status == reportedStatus(state)
             IN IF t.local.instanceStatus # status
                THEN Move(t, [t EXCEPT !.pc = "state:instance.update",
                                       !.local.newStatus = status])
                ELSE Move(t, Respond(t, 200))
    /\ UNCHANGED <<store, emitted>>

StateUpdateInstanceKeepsCode(t) ==
    /\ At(t, "connectionState", "state:instance.update")
    /\ instances' = [instances EXCEPT
           ![t.target].status = t.local.newStatus,
           ![t.target].qrCode = t.local.qrCode]
    /\ Move(t, Respond(t, 200))
    /\ UNCHANGED <<users, contacts, conversations, messages, emitted>>

\* await prisma.instance.update({ data: { status, qrCode: status ===
\* 'CONNECTED' ? null : instance.qrCode } }); return res.json(...)
StateUpdateInstance(t) ==
    /\ At(t, "connectionState", "state:instance.update")
    /\ instances' = [instances EXCEPT
           ![t.target].status = t.local.newStatus,
           ![t.target].qrCode = IF t.local.newStatus = "CONNECTED" THEN Absent
                                ELSE t.local.qrCode]
    /\ Move(t, Respond(t, 200))
    /\ UNCHANGED <<users, contacts, conversations, messages, emitted>>

LogoutFindInstance(t) == InstanceFindUnique(t, "logout", "logout:gateway")

\* await evolutionApi.logoutInstance(...)
LogoutGateway(t) ==
    /\ At(t, "logout", "logout:gateway")
    /\ \/ Move(t, Respond(t, 500))
       \/ Move(t, [t EXCEPT !.pc = "logout:instance.update"])
    /\ UNCHANGED <<store, emitted>>

\* await prisma.instance.update({ data: { status: 'DISCONNECTED', qrCode:
\* null, ... } }); return res.json(...)
LogoutUpdateInstance(t) ==
    /\ At(t, "logout", "logout:instance.update")
    /\ instances' = [instances EXCEPT ![t.target].status = "DISCONNECTED",
                                      ![t.target].qrCode = Absent]
    /\ Move(t, Respond(t, 200))
    /\ UNCHANGED <<users, contacts, conversations, messages, emitted>>

RestartFindInstance(t) == InstanceFindUnique(t, "restart", "restart:gateway")

RestartGatewayReconnects(t) ==
    /\ At(t, "restart", "restart:gateway")
    /\ instances' = [instances EXCEPT ![t.target].status = "CONNECTING"]
    /\ Move(t, Respond(t, 200))
    /\ UNCHANGED <<users, contacts, conversations, messages, emitted>>

\* await evolutionApi.restartInstance(...); return res.json(...)
RestartGateway(t) ==
    /\ At(t, "restart", "restart:gateway")
    /\ \/ Move(t, Respond(t, 500))
       \/ Move(t, Respond(t, 200))
    /\ UNCHANGED <<store, emitted>>

---------------------------------------------------------------------------
(* syncConversations: the chats the gateway lists, and for each of them its *)
(* contact, its conversation and the messages the gateway holds for it. The *)
(* body of the loop over the chats is inside a try/catch that goes on with  *)
(* the next chat.                                                           *)

\* chat.remoteJid with the suffixes '@s.whatsapp.net', '@g.us', '@lid' and
\* '@broadcast' replaced by ''
cleanPhoneNumber(remoteJid) ==
    SelectSeq(remoteJid, LAMBDA part :
        part \notin {"@s.whatsapp.net", "@g.us", "@lid", "@broadcast"})

FindContactByPhoneAnyInstance(instanceId, phone) ==
    LET found == {i \in Rows(contacts) :
                    contacts[i].phoneNumber = phone /\ ~contacts[i].isGroup}
    IN IF found = {} THEN NoRow
       ELSE CHOOSE i \in found : \A j \in found : i <= j

\* prisma.contact.findFirst({ where: { phoneNumber, instanceId, isGroup:
\* false } })
FindContactByPhone(instanceId, phone) ==
    LET found == {i \in Rows(contacts) :
                    /\ contacts[i].instanceId = instanceId
                    /\ contacts[i].phoneNumber = phone
                    /\ ~contacts[i].isGroup}
    IN IF found = {} THEN NoRow
       ELSE CHOOSE i \in found : \A j \in found : i <= j

\* prisma.message.findFirst({ where: { messageId, conversationId } })
FindMessageInConversation(messageId, conversationId) ==
    LET found == {i \in Rows(messages) :
                    /\ messages[i].messageId = messageId
                    /\ messages[i].conversationId = conversationId}
    IN IF found = {} THEN NoRow
       ELSE CHOOSE i \in found : \A j \in found : i <= j

\* let messageType = 'TEXT'; if (msg.message?.imageMessage) ... else if ...
syncMessageType(message) ==
    IF ~Has(message) THEN "TEXT"
    ELSE LET m == message[1] IN
    IF Has(m.imageMessage) THEN "IMAGE"
    ELSE IF Has(m.videoMessage) THEN "VIDEO"
    ELSE IF Has(m.audioMessage) THEN "AUDIO"
    ELSE IF Has(m.documentMessage) THEN "DOCUMENT"
    ELSE IF Has(m.stickerMessage) THEN "STICKER"
    ELSE IF Has(m.locationMessage) THEN "LOCATION"
    ELSE IF Has(m.contactMessage) THEN "CONTACT"
    ELSE IF Has(m.reactionMessage) THEN "REACTION"
    ELSE "TEXT"

\* let content = ''; if (msg.message?.conversation) ... ; stored as
\* content || null (the documents of the model carry no fileName)
syncContent(message) ==
    IF ~Has(message) THEN Absent
    ELSE LET m == message[1] IN
    IF TruthyStr(m.conversation) THEN m.conversation
    ELSE IF Has(m.extendedTextMessage) THEN OrNull(m.extendedTextMessage[1].text)
    ELSE IF Has(m.imageMessage) /\ TruthyStr(m.imageMessage[1].caption)
        THEN m.imageMessage[1].caption
    ELSE IF Has(m.videoMessage) /\ TruthyStr(m.videoMessage[1].caption)
        THEN m.videoMessage[1].caption
    ELSE Absent

\* let status = 'DELIVERED'; if (msg.status === 1) ... === 2 ... === 3
syncStatus(code) ==
    IF code = 1 THEN "SENT"
    ELSE IF code = 2 THEN "DELIVERED"
    ELSE IF code = 3 THEN "READ"
    ELSE "DELIVERED"

\* lastMessageContent of the first record of the chat
syncLastMessage(message) ==
    IF Has(message) /\ TruthyStr(message[1].conversation)
        THEN message[1].conversation
    ELSE IF Has(message) /\ Has(message[1].extendedTextMessage)
            /\ TruthyStr(message[1].extendedTextMessage[1].text)
        THEN message[1].extendedTextMessage[1].text
    ELSE <<"[mensagem de midia]">>

\* const instance = await prisma.instance.findUnique(...): 404 without a
\* row, 400 when instance.status !== 'CONNECTED'
SyncFindInstance(t) ==
    /\ At(t, "sync", "sync:instance.findUnique")
    /\ IF t.target \notin Rows(instances)
       THEN Move(t, Respond(t, 404))
       ELSE IF instances[t.target].status # "CONNECTED"
       THEN Move(t, Respond(t, 400))
       ELSE Move(t, [t EXCEPT !.pc = "sync:findChats",
                              !.local.instanceId = t.target])
    /\ UNCHANGED <<store, emitted>>

\* the handler goes on with the chat after chat i, or answers after the last
SyncNextChat(t) ==
    IF t.idx < Len(t.data)
    THEN [t EXCEPT !.pc = "sync:contact.findFirst", !.idx = t.idx + 1,
                   !.local = [NoLocals EXCEPT !.instanceId = t.local.instanceId]]
    ELSE Respond(t, 200)

\* const chatsResponse = await evolutionApi.findChats(...); without chats the
\* handler answers 200 with synced: 0
SyncFindChats(t, chatLists) ==
    /\ At(t, "sync", "sync:findChats")
    /\ \/ Move(t, Respond(t, 500))
       \/ \E chats \in chatLists :
             IF chats = <<>> THEN Move(t, Respond(t, 200))
             ELSE Move(t, [t EXCEPT !.pc = "sync:contact.findFirst",
                                    !.data = chats, !.idx = 1])
    /\ UNCHANGED <<store, emitted>>

\* let contact = await prisma.contact.findFirst({ where: { remoteJid,
\* instanceId } })
SyncFindContact(t) ==
    /\ At(t, "sync", "sync:contact.findFirst")
    /\ LET chat == t.data[t.idx]
           contact == FindContact(t.local.instanceId, chat.remoteJid)
       IN IF contact # NoRow
          THEN Move(t, [t EXCEPT !.pc = "sync:conversation.findFirst",
                                 !.local.contactId = contact])
          ELSE IF ~isGroup(chat.remoteJid)
          THEN Move(t, [t EXCEPT !.pc = "sync:contact.findFirst.phoneNumber"])
          ELSE Move(t, [t EXCEPT !.pc = "sync:contact.create"])
    /\ UNCHANGED <<store, emitted>>

\* contact = await prisma.contact.findFirst({ where: { phoneNumber, ... } })
SyncFindContactByPhone(t) ==
    /\ At(t, "sync", "sync:contact.findFirst.phoneNumber")
    /\ LET chat == t.data[t.idx]
           contact == FindContactByPhone(t.local.instanceId,
                                         cleanPhoneNumber(chat.remoteJid))
       IN IF contact # NoRow
          THEN Move(t, [t EXCEPT !.pc = "sync:contact.update",
                                 !.local.contactId = contact])
          ELSE Move(t, [t EXCEPT !.pc = "sync:contact.create"])
    /\ UNCHANGED <<store, emitted>>

\* contact = await prisma.contact.update({ data: { remoteJid } })
SyncUpdateContact(t) ==
    /\ At(t, "sync", "sync:contact.update")
    /\ LET chat == t.data[t.idx] IN
       IF contacts_instanceId_remoteJid_key(t.local.instanceId, chat.remoteJid)
       THEN /\ contacts' = [contacts EXCEPT
                   ![t.local.contactId].remoteJid = chat.remoteJid]
            /\ Move(t, [t EXCEPT !.pc = "sync:conversation.findFirst"])
       ELSE /\ Move(t, SyncNextChat(t))
            /\ UNCHANGED contacts
    /\ UNCHANGED <<users, instances, conversations, messages, emitted>>

\* contact = await prisma.contact.create(...)
SyncCreateContact(t) ==
    /\ At(t, "sync", "sync:contact.create")
    /\ LET chat == t.data[t.idx] IN
       IF contacts_instanceId_remoteJid_key(t.local.instanceId, chat.remoteJid)
       THEN /\ contacts' = Append(contacts,
                  [instanceId |-> t.local.instanceId,
                   remoteJid |-> chat.remoteJid,
                   pushName |-> OrEmpty(chat.pushName),
                   phoneNumber |-> cleanPhoneNumber(chat.remoteJid),
                   isGroup |-> isGroup(chat.remoteJid)])
            /\ Move(t, [t EXCEPT !.pc = "sync:conversation.findFirst",
                                 !.local.contactId = Len(contacts) + 1])
       ELSE /\ Move(t, SyncNextChat(t))
            /\ UNCHANGED contacts
    /\ UNCHANGED <<users, instances, conversations, messages, emitted>>

\* let conversation = await prisma.conversation.findFirst(...)
SyncFindConversation(t) ==
    /\ At(t, "sync", "sync:conversation.findFirst")
    /\ LET conversation == FindConversation(t.local.instanceId, t.local.contactId)
       IN IF conversation = NoRow
          THEN Move(t, [t EXCEPT !.pc = "sync:conversation.create"])
          ELSE Move(t, [t EXCEPT !.pc = "sync:findMessages",
                                 !.local.conversationId = conversation])
    /\ UNCHANGED <<store, emitted>>

\* conversation = await prisma.conversation.create({ status: 'OPEN',
\* unreadCount: chat.unreadCount || 0, lastMessage: '' })
SyncCreateConversation(t) ==
    /\ At(t, "sync", "sync:conversation.create")
    /\ IF conversations_instanceId_contactId_key(t.local.instanceId,
                                                 t.local.contactId)
       THEN /\ conversations' = Append(conversations,
                  [instanceId |-> t.local.instanceId,
                   contactId |-> t.local.contactId,
                   status |-> "OPEN",
                   unreadCount |-> t.data[t.idx].unreadCount,
                   lastMessage |-> Some("")])
            /\ Move(t, [t EXCEPT !.pc = "sync:findMessages",
                                 !.local.conversationId = Len(conversations) + 1])
       ELSE /\ Move(t, SyncNextChat(t))
            /\ UNCHANGED conversations
    /\ UNCHANGED <<users, instances, contacts, messages, emitted>>

\* the loop over the records goes on with the record after recIdx, or the
\* handler updates the conversation after the last
SyncNextRecord(t) ==
    IF t.local.recIdx < Len(t.local.records)
    THEN [t EXCEPT !.pc = "sync:message.findFirst",
                   !.local.recIdx = t.local.recIdx + 1]
    ELSE [t EXCEPT !.pc = "sync:conversation.update"]

\* const messages = await evolutionApi.findMessages(...): a failure is caught
\* by the chat's try/catch; without messages.messages.records, or with no
\* record, nothing more is done for the chat
SyncFindMessages(t, results) ==
    /\ At(t, "sync", "sync:findMessages")
    /\ \/ Move(t, SyncNextChat(t))
       \/ \E records \in results :
             IF ~Has(records) \/ records[1] = <<>>
             THEN Move(t, SyncNextChat(t))
             ELSE Move(t, [t EXCEPT !.pc = "sync:message.findFirst",
                                    !.local.records = records[1],
                                    !.local.recIdx = 1])
    /\ UNCHANGED <<store, emitted>>

\* const existingMessage = await prisma.message.findFirst(...);
\* if (existingMessage) continue
SyncFindMessage(t) ==
    /\ At(t, "sync", "sync:message.findFirst")
    /\ LET msg == t.local.records[t.local.recIdx]
           existingMessage ==
               FindMessageInConversation(msg.id, t.local.conversationId)
       IN IF existingMessage # NoRow
          THEN Move(t, SyncNextRecord(t))
          ELSE Move(t, [t EXCEPT !.pc = "sync:message.create"])
    /\ UNCHANGED <<store, emitted>>

\* try { await prisma.message.create(...) } catch { console.warn(...) }
SyncCreateMessage(t) ==
    /\ At(t, "sync", "sync:message.create")
    /\ LET msg == t.local.records[t.local.recIdx] IN
       IF messages_instanceId_messageId_key(t.local.instanceId, msg.id)
       THEN messages' = Append(messages,
                [messageId |-> msg.id,
                 content |-> syncContent(msg.message),
                 type |-> syncMessageType(msg.message),
                 status |-> syncStatus(msg.status),
                 isFromMe |-> msg.fromMe,
                 instanceId |-> t.local.instanceId,
                 contactId |-> t.local.contactId,
                 conversationId |-> t.local.conversationId])
       ELSE UNCHANGED messages
    /\ Move(t, SyncNextRecord(t))
    /\ UNCHANGED <<users, instances, contacts, conversations, emitted>>

\* await prisma.conversation.update({ data: { lastMessage:
\* lastMessageContent, lastMessageAt } }) from messages.messages.records[0]
SyncUpdateConversation(t) ==
    /\ At(t, "sync", "sync:conversation.update")
    /\ conversations' = [conversations EXCEPT
           ![t.local.conversationId].lastMessage =
               syncLastMessage(t.local.records[1].message)]
    /\ Move(t, SyncNextChat(t))
    /\ UNCHANGED <<users, instances, contacts, messages, emitted>>

---------------------------------------------------------------------------
(* register *)

\* prisma.user.findUnique({ where: { email } })
FindUser(email) ==
    IF \E i \in Rows(users) : users[i].email = email
    THEN CHOOSE i \in Rows(users) : users[i].email = email
    ELSE NoRow

\* the unique index on users(email)
users_email_key(email) == FindUser(email) = NoRow

\* a POST /auth/register arrives with a body the schema accepts
Register(email) ==
    /\ Accepted < MaxRequests
    /\ BagCardinality(running) < MaxInFlight
    /\ Enter(Task("register", "register:user.findUnique", <<>>, "",
                  <<[email |-> email]>>, NoRow))
    /\ UNCHANGED <<store, emitted>>

\* const existingUser = await prisma.user.findUnique(...);
\* if (existingUser) return 400
RegisterFindUser(t) ==
    /\ At(t, "register", "register:user.findUnique")
    /\ IF FindUser(t.data[1].email) # NoRow
       THEN Move(t, Respond(t, 400))
       ELSE Move(t, [t EXCEPT !.pc = "register:user.count"])
    /\ UNCHANGED <<store, emitted>>

\* const usersCount = await prisma.user.count()
RegisterCount(t) ==
    /\ At(t, "register", "register:user.count")
    /\ Move(t, [t EXCEPT !.pc = "register:bcrypt.hash",
                         !.local.usersCount = Len(users)])
    /\ UNCHANGED <<store, emitted>>

\* const hashedPassword = await bcrypt.hash(password, 10)
RegisterHash(t) ==
    /\ At(t, "register", "register:bcrypt.hash")
    /\ Move(t, [t EXCEPT !.pc = "register:user.create"])
    /\ UNCHANGED <<store, emitted>>

\* role: usersCount === 0 ? 'ADMIN' : 'AGENT'
Role(usersCount) == IF usersCount = 0 THEN "ADMIN" ELSE "AGENT"

\* const user = await prisma.user.create(...); jwt.sign(...); return 201.
\* A uniqueness violation reaches the catch, which answers 500.
RegisterCreateUser(t) ==
    /\ At(t, "register", "register:user.create")
    /\ IF users_email_key(t.data[1].email)
       THEN /\ users' = Append(users, [email |-> t.data[1].email,
                                       role |-> Role(t.local.usersCount)])
            /\ Move(t, Respond([t EXCEPT !.target = Len(users) + 1], 201))
       ELSE /\ Move(t, Respond(t, 500))
            /\ UNCHANGED users
    /\ UNCHANGED <<instances, contacts, conversations, messages, emitted>>

---------------------------------------------------------------------------
(* Inputs *)

UpsertItem(remoteJid, id, fromMe) ==
    [remoteJid |-> remoteJid, id |-> id, fromMe |-> fromMe,
     pushName |-> <<"Ana">>, message |-> Some(TextPayload("Oi"))]

\* an item { key: { remoteJid, id, fromMe }, pushName, message }
UpsertItemOf(remoteJid, id, fromMe, pushName, message) ==
    [remoteJid |-> remoteJid, id |-> id, fromMe |-> fromMe,
     pushName |-> pushName, message |-> message]

\* well-formed items of a message-upsert
ValidItems ==
    {UpsertItem(Jid1, id, fromMe) : id \in {"MSG1", "MSG2"}, fromMe \in BOOLEAN}

\* the items of a batch: inbound well-formed ones, and the items the handler
\* skips or fails on: one without key.id, one without remoteJid and one for
\* the status pseudo-identifier
UpsertItems ==
    {UpsertItem(Jid1, "MSG1", FALSE), UpsertItem(Jid1, "MSG2", FALSE),
     UpsertItem(Jid1, NoValue, FALSE),
     UpsertItem(<<>>, "MSG1", FALSE),
     UpsertItem(StatusBroadcast, "MSG1", FALSE)}

\* the data arrays of at most MaxBatch items over a set of items
Batches(items) == UNION {[1..n -> items] : n \in 1..MaxBatch}

\* data: an array, or a single object
Datas(items) ==
    {[isArray |-> TRUE, value |-> b] : b \in Batches(items)}
    \cup {[isArray |-> FALSE, value |-> i] : i \in items}

Envelope(event, instance, data) ==
    [event |-> event, instance |-> instance, data |-> data]

\* deliveries of one well-formed item for the known instance
SingleUpserts ==
    {Envelope(<<"messages", ".", "upsert">>, "shop1",
              [isArray |-> FALSE, value |-> i]) : i \in ValidItems}

\* deliveries of batches, for a known and an unknown instance
BatchUpserts ==
    {Envelope(<<"messages", ".", "upsert">>, n, d) :
        n \in InstanceNames, d \in Datas(UpsertItems)}

\* first messages: of a person, a group or an identifier of another kind,
\* with a push name, an empty one or none, inbound or sent from the phone
FirstItems ==
    {UpsertItemOf(Jid1, "MSG1", fromMe, p, Some(TextPayload("Oi"))) :
        fromMe \in BOOLEAN, p \in {Absent, Some(""), Some("Ana")}}
    \cup {UpsertItemOf(j, "MSG1", fromMe, Absent, Some(TextPayload("Oi"))) :
             j \in {GroupJid, LidJid}, fromMe \in BOOLEAN}
    \cup {UpsertItem(Jid1, "MSG2", fromMe) : fromMe \in BOOLEAN}

FirstUpserts ==
    {Envelope(<<"messages", ".", "upsert">>, "shop1",
              [isArray |-> FALSE, value |-> i]) : i \in FirstItems}

\* messageData.message: absent, or any combination of the variant keys, the
\* text of the two text variants and the caption of an image being a text, the
\* empty string or (where the type allows) missing
Payloads ==
    {Absent} \cup
    {Some(m) : m \in
        [conversation : {Absent, Some(""), Some("Oi")},
         extendedTextMessage : {Absent, Some([text |-> Some("")]),
                                Some([text |-> Some("Ola")])},
         imageMessage : {Absent, Some([caption |-> Absent]),
                         Some([caption |-> Some("foto")])},
         videoMessage : {Absent, Some([caption |-> Some("clip")])},
         audioMessage : {Absent, Some([mimetype |-> "audio/ogg"])},
         documentMessage : {Absent, Some([mimetype |-> "application/pdf"])},
         stickerMessage : {Absent, Some([mimetype |-> "image/webp"])},
         locationMessage : {Absent, Some([name |-> <<"Praca">>])},
         contactMessage : {Absent, Some([displayName |-> <<"Bia">>])},
         reactionMessage : {Absent, Some([text |-> Some("+1")])}]}

\* deliveries of one inbound item with any payload
ContentUpserts ==
    {Envelope(<<"messages", ".", "upsert">>, "shop1",
              [isArray |-> FALSE,
               value |-> UpsertItemOf(Jid1, "MSG1", FALSE, Some("Ana"), m)]) :
        m \in Payloads}

\* the data of one delivery: the element alone, or an array of it
ObjectOrArray(element) ==
    {[isArray |-> FALSE, value |-> element],
     [isArray |-> TRUE, value |-> <<element>>]}

\* data of a connection-update: { state }
ConnectionItems == [state : {"open", "connecting", "close"}]

\* data of a qrcode-update: { qrcode: { base64 } }, or {} without a code
QrCodeItems ==
    {[qrcode |-> Some([base64 |-> Some("QR1")])], [qrcode |-> Absent]}

\* the names an event is delivered under, by the handler they select
UpsertNames == {<<"messages", ".", "upsert">>, <<"MESSAGES", "_", "UPSERT">>}
UpdateNames == {<<"messages", ".", "update">>, <<"MESSAGES", "_", "UPDATE">>}
ConnectionNames ==
    {<<"connection", ".", "update">>, <<"CONNECTION", "_", "UPDATE">>}
QrCodeNames ==
    {<<"qrcode", ".", "updated">>, <<"QRCODE", "_", "UPDATED">>,
     <<"qrcode", ".", "update">>}
\* the names without a handler: the contacts events and names handleWebhook
\* does not know
UnhandledNames ==
    {<<"contacts", ".", "upsert">>, <<"CONTACTS", "_", "UPDATE">>,
     <<"presence", ".", "update">>, <<"messages", "-", "upsert">>}

\* deliveries of every event, under each of its names, with the data as an
\* object or as an array of one element
EventEnvelopes ==
    {Envelope(e, "shop1", d) :
        e \in UpsertNames \cup UnhandledNames,
        d \in ObjectOrArray(UpsertItem(Jid1, "MSG1", FALSE))}
    \cup {Envelope(e, "shop1", d) :
             e \in UpdateNames, d \in ObjectOrArray([id |-> "MSG1", status |-> 4])}
    \cup {Envelope(e, n, d) :
             e \in ConnectionNames, n \in InstanceNames,
             d \in UNION {ObjectOrArray(i) : i \in ConnectionItems}}
    \cup {Envelope(e, n, d) :
             e \in QrCodeNames, n \in InstanceNames,
             d \in UNION {ObjectOrArray(i) : i \in QrCodeItems}}

\* the bodies of the send requests: a text (one that the schema rejects), a
\* media with or without caption, a recorded audio
SendRequests ==
    {[kind |-> "sendText", body |-> [text |-> x]] : x \in {"Ola", ""}}
    \cup {[kind |-> "sendMedia", body |-> [mediatype |-> "image", caption |-> c]] :
             c \in {Absent, Some("foto")}}
    \cup {[kind |-> "sendAudio", body |-> [audio |-> "b64"]]}

\* connection-updates of the known instance
ConnectionEnvelopes ==
    {Envelope(<<"connection", ".", "update">>, "shop1",
              [isArray |-> FALSE, value |-> i]) : i \in ConnectionItems}

\* a qrcode-update of the known instance with a pairing code
QrCodeEnvelopes ==
    {Envelope(<<"qrcode", ".", "updated">>, "shop1",
              [isArray |-> FALSE,
               value |-> [qrcode |-> Some([base64 |-> Some("QR1")])]])}

\* the conversation of the established store, and an id without a row
SendTargets == {1, 2}

\* the instance of the established store, and an id without a row
InstanceIds == {1, 2}

\* a chat { remoteJid, pushName, unreadCount } as findChats lists it
Chat(remoteJid, pushName, unreadCount) ==
    [remoteJid |-> remoteJid, pushName |-> pushName,
     unreadCount |-> unreadCount]

\* the chat of Ana under her number and under a linked id, and a group
AnaChat == Chat(Jid1, Some("Ana"), 0)
AnaLidChat == Chat(<<"5511999", "@lid">>, Absent, 2)
GroupChat == Chat(GroupJid, Some("Grupo"), 0)

\* what findChats returns
ChatLists ==
    {<<>>, <<AnaChat>>, <<AnaLidChat>>, <<GroupChat>>, <<AnaLidChat, GroupChat>>}

\* a record { key: { id, fromMe }, message, status } as findMessages lists it
Record(id, fromMe, message, status) ==
    [id |-> id, fromMe |-> fromMe, message |-> message, status |-> status]

\* the stored message of Ana, without status (0), and a read picture the
\* agent sent from the phone
StoredRecord == Record("MSG1", FALSE, Some(TextPayload("Oi")), 0)
PictureRecord ==
    Record("MSG3", TRUE,
           Some([EmptyPayload EXCEPT
                    !.imageMessage = Some([caption |-> Some("foto")])]), 3)

\* what findMessages returns: no records, or a list of them, newest first
MessageResults ==
    {Absent, Some(<<>>), Some(<<StoredRecord>>), Some(<<PictureRecord>>),
     Some(<<PictureRecord, StoredRecord>>)}

\* the message-upserts the gateway delivers for what is sent from the
\* account itself (fromMe): the echo of a message the gateway has accepted
\* from a send handler, under the id it gave it, and a message typed on the
\* phone to a group that has no contact yet
EchoUpserts ==
    {Envelope(<<"messages", ".", "upsert">>, "shop1",
              [isArray |-> FALSE,
               value |-> UpsertItemOf(Jid1, id, TRUE, Absent,
                                      Some(TextPayload("Ola")))]) :
        id \in GatewayIds \ FreshGatewayIds}
    \cup {Envelope(<<"messages", ".", "upsert">>, "shop1",
                   [isArray |-> FALSE,
                    value |-> UpsertItemOf(GroupJid, "MSG2", TRUE, Absent,
                                           Some(TextPayload("Ola")))])}

\* new inbound messages of Ana, whose conversation exists, and a first
\* message in a group
NewInboundUpserts ==
    {Envelope(<<"messages", ".", "upsert">>, "shop1",
              [isArray |-> FALSE, value |-> i]) :
        i \in {UpsertItem(Jid1, "MSG2", FALSE), UpsertItem(Jid1, "MSG3", FALSE),
               UpsertItem(GroupJid, "MSG4", FALSE)}}

\* first messages for the second instance, from Ana and in a group
SecondInstanceUpserts ==
    {Envelope(<<"messages", ".", "upsert">>, "shop2",
              [isArray |-> FALSE, value |-> i]) :
        i \in {UpsertItem(Jid1, "MSG2", FALSE), UpsertItem(GroupJid, "MSG4", TRUE)}}

\* the emails of the people who register
Emails == {"ana@loja.com", "bia@loja.com", "caio@loja.com"}

ConversationIds == {1}

\* vendor status codes; 0 is an item without update.status
StatusCodes == 0..5

\* the items of a message-update: { key: { id }, update: { status } }
UpdateItems ==
    [id : {"MSG1"}, status : StatusCodes] \cup {[id |-> NoValue, status |-> 4]}

\* deliveries of one status update, for a known or unknown instance
SingleUpdates ==
    {Envelope(<<"MESSAGES", "_", "UPDATE">>, n,
              [isArray |-> FALSE, value |-> i]) :
        n \in InstanceNames, i \in UpdateItems}

\* deliveries of the message MSG1, inbound or sent from the phone
UpsertsOfOne ==
    {e \in SingleUpserts : e.data.value.id = "MSG1"}

---------------------------------------------------------------------------
(* The specifications *)

Init ==
    /\ users = <<>>
    /\ instances = <<[name |-> "shop1", status |-> "DISCONNECTED",
                      qrCode |-> Absent]>>
    /\ contacts = <<>>
    /\ conversations = <<>>
    /\ messages = <<>>
    /\ emitted = EmptyBag
    /\ running = EmptyBag
    /\ finished = EmptyBag

\* one awaited call of a running message-upsert handler
UpsertStep ==
    \/ \E t \in Running : UpsertFindInstance(t)
    \/ \E t \in Running : UpsertFindContact(t)
    \/ \E t \in Running : UpsertCreateContact(t)
    \/ \E t \in Running : UpsertFindConversation(t)
    \/ \E t \in Running : UpsertCreateConversation(t)
    \/ \E t \in Running : UpsertFindMessage(t)
    \/ \E t \in Running : UpsertCreateMessage(t)
    \/ \E t \in Running : UpsertUpdateConversation(t)

\* one awaited call of a running markAsRead handler
MarkAsReadStep ==
    \/ \E t \in Running : MarkAsReadFindConversation(t)
    \/ \E t \in Running : MarkAsReadUpdateMany(t)
    \/ \E t \in Running : MarkAsReadResetUnread(t)

\* Concurrent deliveries of single items, with agents marking conversations
\* as read and resolving them.
Next ==
    \/ \E envelope \in SingleUpserts : HandleWebhook(envelope, MaxRequests)
    \/ \E id \in ConversationIds : MarkAsRead(id)
    \/ \E id \in ConversationIds : resolveConversation(id)
    \/ UpsertStep
    \/ MarkAsReadStep

Spec == Init /\ [][Next]_vars

\* Deliveries of batches, well-formed or not, for a known or unknown instance.
NextBatch ==
    \/ \E envelope \in BatchUpserts : HandleWebhook(envelope, MaxBatchRequests)
    \/ UpsertStep

SpecBatch == Init /\ [][NextBatch]_vars

\* one awaited call of a running message-update handler
UpdateStep ==
    \/ \E t \in Running : UpdateFindInstance(t)
    \/ \E t \in Running : UpdateFindMessage(t)
    \/ \E t \in Running : UpdateMessageStatus(t)

\* Status updates for a message that is stored, not yet stored or never
\* stored, with agents marking the conversation as read.
NextStatus ==
    \/ \E envelope \in UpsertsOfOne : HandleWebhook(envelope, MaxRequests)
    \/ \E envelope \in SingleUpdates : HandleWebhook(envelope, MaxRequests)
    \/ \E id \in ConversationIds : MarkAsRead(id)
    \/ UpsertStep
    \/ UpdateStep
    \/ MarkAsReadStep

SpecStatus == Init /\ [][NextStatus]_vars

\* First messages for the known instance, from known and unknown remote
\* identifiers.
NextFirst ==
    \/ \E envelope \in FirstUpserts : HandleWebhook(envelope, MaxFirstRequests)
    \/ UpsertStep

SpecFirst == Init /\ [][NextFirst]_vars

\* One delivery of one item, with any payload: the normalisation of a payload
\* depends on nothing but the payload.
NextContent ==
    \/ \E envelope \in ContentUpserts : HandleWebhook(envelope, 1)
    \/ UpsertStep

SpecContent == Init /\ [][NextContent]_vars

\* one awaited call of a running connection-update or qrcode-update handler
ConnectionStep ==
    \/ \E t \in Running : ConnectionFindInstance(t)
    \/ \E t \in Running : ConnectionUpdateInstance(t)

QrCodeStep ==
    \/ \E t \in Running : QrCodeFindInstance(t)
    \/ \E t \in Running : QrCodeUpdateInstance(t)

\* Deliveries of every event the gateway sends, under every name.
NextEvents ==
    \/ \E envelope \in EventEnvelopes : HandleWebhook(envelope, MaxEventRequests)
    \/ UpsertStep
    \/ UpdateStep
    \/ ConnectionStep
    \/ QrCodeStep

SpecEvents == Init /\ [][NextEvents]_vars

\* The store after the delivery of a first inbound message "Oi" of Ana (see
\* AfterFirstUpsert), the instance being disconnected or waiting for its
\* pairing code to be scanned; the events and requests of that delivery are
\* not kept. The instance is in one of the states the connection-update and
\* qrcode-update handlers leave it in.
InitEstablished ==
    /\ users = <<>>
    /\ instances \in
          {<<[name |-> "shop1", status |-> "DISCONNECTED", qrCode |-> Absent]>>,
           <<[name |-> "shop1", status |-> "CONNECTED", qrCode |-> Absent]>>,
           <<[name |-> "shop1", status |-> "QRCODE", qrCode |-> Some("QR1")]>>}
    /\ contacts = <<[instanceId |-> 1, remoteJid |-> Jid1,
                     pushName |-> <<"Ana">>, phoneNumber |-> <<"5511999">>,
                     isGroup |-> FALSE]>>
    /\ conversations = <<[instanceId |-> 1, contactId |-> 1, status |-> "OPEN",
                          unreadCount |-> 1, lastMessage |-> <<"Oi">>]>>
    /\ messages = <<[messageId |-> "MSG1", content |-> <<"Oi">>,
                     type |-> "TEXT", status |-> "DELIVERED",
                     isFromMe |-> FALSE, instanceId |-> 1, contactId |-> 1,
                     conversationId |-> 1]>>
    /\ emitted = EmptyBag
    /\ running = EmptyBag
    /\ finished = EmptyBag

\* one awaited call of a running send handler
SendStep ==
    \/ \E t \in Running : SendFindConversation(t)
    \/ \E t \in Running : SendGateway(t)
    \/ \E t \in Running : SendCreateMessage(t)
    \/ \E t \in Running : SendUpdateConversation(t)

\* Agents sending to a conversation while the gateway reports the state of
\* the connection.
NextSend ==
    \/ \E envelope \in ConnectionEnvelopes : HandleWebhook(envelope, MaxRequests)
    \/ \E r \in SendRequests, id \in SendTargets : Send(r.kind, id, r.body)
    \/ ConnectionStep
    \/ SendStep

SpecSend == InitEstablished /\ [][NextSend]_vars

---------------------------------------------------------------------------
\* one awaited call of a running handler of the instance controller
InstanceStep ==
    \/ \E t \in Running : ConnectFindInstance(t)
    \/ \E t \in Running : ConnectGateway(t)
    \/ \E t \in Running : ConnectUpdateInstance(t)
    \/ \E t \in Running : StateFindInstance(t)
    \/ \E t \in Running : StateGateway(t)
    \/ \E t \in Running : StateUpdateInstance(t)
    \/ \E t \in Running : LogoutFindInstance(t)
    \/ \E t \in Running : LogoutGateway(t)
    \/ \E t \in Running : LogoutUpdateInstance(t)
    \/ \E t \in Running : RestartFindInstance(t)
    \/ \E t \in Running : RestartGateway(t)

\* one awaited call of a running syncConversations
SyncStep ==
    \/ \E t \in Running : SyncFindInstance(t)
    \/ \E t \in Running : SyncFindChats(t, ChatLists)
    \/ \E t \in Running : SyncFindContact(t)
    \/ \E t \in Running : SyncFindContactByPhone(t)
    \/ \E t \in Running : SyncUpdateContact(t)
    \/ \E t \in Running : SyncCreateContact(t)
    \/ \E t \in Running : SyncFindConversation(t)
    \/ \E t \in Running : SyncCreateConversation(t)
    \/ \E t \in Running : SyncFindMessages(t, MessageResults)
    \/ \E t \in Running : SyncFindMessage(t)
    \/ \E t \in Running : SyncCreateMessage(t)
    \/ \E t \in Running : SyncUpdateConversation(t)

\* The operations on an instance: the gateway's connection-updates and the
\* requests to the instance controller.
NextInstance ==
    \/ \E envelope \in ConnectionEnvelopes \cup QrCodeEnvelopes :
          HandleWebhook(envelope, MaxInstanceRequests)
    \/ \E kind \in InstanceKinds \cup {"sync"}, id \in InstanceIds :
          InstanceRequest(kind, id, MaxInstanceRequests)
    \/ ConnectionStep
    \/ QrCodeStep
    \/ InstanceStep
    \/ SyncStep

SpecInstance == InitEstablished /\ [][NextInstance]_vars

\* one awaited call of a running register
RegisterStep ==
    \/ \E t \in Running : RegisterFindUser(t)
    \/ \E t \in Running : RegisterCount(t)
    \/ \E t \in Running : RegisterHash(t)
    \/ \E t \in Running : RegisterCreateUser(t)

\* People registering on a new installation.
NextRegister ==
    \/ \E email \in Emails : Register(email)
    \/ RegisterStep

SpecRegister == Init /\ [][NextRegister]_vars

\* Agents sending to and resolving the conversation of a connected instance
\* while the gateway delivers the upserts of what the account sends.
NextEcho ==
    \/ \E r \in SendRequests : Send(r.kind, 1, r.body)
    \/ \E envelope \in EchoUpserts : HandleWebhook(envelope, MaxRequests)
    \/ \E id \in ConversationIds : resolveConversation(id)
    \/ SendStep
    \/ UpsertStep

\* the established store with the instance connected
InitConnected == InitEstablished /\ instances[1].status = "CONNECTED"

SpecEcho == InitConnected /\ [][NextEcho]_vars

\* New inbound messages for a conversation that exists.
NextUnread ==
    \/ \E envelope \in NewInboundUpserts : HandleWebhook(envelope, MaxRequests)
    \/ UpsertStep

SpecUnread == InitEstablished /\ [][NextUnread]_vars

\* New inbound messages for a conversation whose status the agents set.
NextTriage ==
    \/ \E envelope \in NewInboundUpserts : HandleWebhook(envelope, MaxRequests)
    \/ \E id \in ConversationIds, status \in ConversationStatuses :
          updateConversation(id, status)
    \/ UpsertStep

SpecTriage == InitConnected /\ [][NextTriage]_vars

\* the established store with a second instance, both connected
InitTwoInstances ==
    /\ users = <<>>
    /\ instances = <<[name |-> "shop1", status |-> "CONNECTED", qrCode |-> Absent],
                     [name |-> "shop2", status |-> "CONNECTED", qrCode |-> Absent]>>
    /\ contacts = <<[instanceId |-> 1, remoteJid |-> Jid1,
                     pushName |-> <<"Ana">>, phoneNumber |-> <<"5511999">>,
                     isGroup |-> FALSE]>>
    /\ conversations = <<[instanceId |-> 1, contactId |-> 1, status |-> "OPEN",
                          unreadCount |-> 1, lastMessage |-> <<"Oi">>]>>
    /\ messages = <<[messageId |-> "MSG1", content |-> <<"Oi">>,
                     type |-> "TEXT", status |-> "DELIVERED",
                     isFromMe |-> FALSE, instanceId |-> 1, contactId |-> 1,
                     conversationId |-> 1]>>
    /\ emitted = EmptyBag
    /\ running = EmptyBag
    /\ finished = EmptyBag

\* one awaited call of a running sync whose gateway lists Ana under her other
\* identifier and a group, each with a picture and the stored message
SyncPathsStep ==
    \/ \E t \in Running : SyncFindInstance(t)
    \/ \E t \in Running : SyncFindChats(t, {<<AnaLidChat, GroupChat>>})
    \/ \E t \in Running : SyncFindContact(t)
    \/ \E t \in Running : SyncFindContactByPhone(t)
    \/ \E t \in Running : SyncUpdateContact(t)
    \/ \E t \in Running : SyncCreateContact(t)
    \/ \E t \in Running : SyncFindConversation(t)
    \/ \E t \in Running : SyncCreateConversation(t)
    \/ \E t \in Running : SyncFindMessages(t, {Some(<<PictureRecord, StoredRecord>>)})
    \/ \E t \in Running : SyncFindMessage(t)
    \/ \E t \in Running : SyncCreateMessage(t)
    \/ \E t \in Running : SyncUpdateConversation(t)

\* The three paths that create contacts, conversations and messages, on two
\* instances: message-upserts, sends of a text and history syncs.
NextPaths ==
    \/ \E envelope \in SecondInstanceUpserts : HandleWebhook(envelope, MaxRequests)
    \/ \E id \in SendTargets : Send("sendText", id, [text |-> "Ola"])
    \/ \E id \in InstanceIds : InstanceRequest("sync", id, MaxRequests)
    \/ UpsertStep
    \/ SendStep
    \/ SyncPathsStep

SpecPaths == InitTwoInstances /\ [][NextPaths]_vars

---------------------------------------------------------------------------
(* Properties *)

\* the running task t takes the step
Moved(t) == CopiesIn(t, running') < CopiesIn(t, running)

\* the tasks answered by the step
Answered == {u \in BagToSet(finished') : CopiesIn(u, finished') > CopiesIn(u, finished)}

\* the item a message-upsert or message-update task is at
Item(t) == t.data[t.idx]

IsUpsert(t) == t.kind = "webhook" /\ normalizedEvent(t.event) = MESSAGES_UPSERT
IsUpdate(t) == t.kind = "webhook" /\ normalizedEvent(t.event) = MESSAGES_UPDATE

\* the events the step emits
NewEvents == emitted' (-) emitted

UnreadCounts == [c \in Rows(conversations) |-> conversations[c].unreadCount]

\* the message of the item t is at is stored already, by another processing
StoredByAnother(t) ==
    LET row == FindMessage(FindInstance(t.instanceName), Item(t).id) IN
    row # NoRow /\ row # t.local.messageRow

\* C1: every step of a message-upsert handler on an item whose (instance,
\* external id) is already stored by an earlier processing leaves the number
\* of stored messages and every unread counter unchanged and emits no
\* message:new, on the conversation topic or globally.
C1_IdempotentUpsert ==
    [][\A t \in Running :
          (IsUpsert(t) /\ Moved(t) /\ StoredByAnother(t)) =>
              /\ Len(messages') = Len(messages)
              /\ UnreadCounts' = UnreadCounts
              /\ \A e \in BagToSet(NewEvents) : e.ev # "message:new"]_vars

\* two deliveries of one inbound item were answered 200, the second one having
\* inserted nothing: one message, unread 1, one message:new per channel
C1_Witness ==
    \E u \in Finished :
        /\ IsUpsert(u) /\ u.response = 200 /\ u.idx > 0 /\ ~Item(u).fromMe
        /\ u.local.conversationId = 1 /\ u.local.messageRow = NoRow
        /\ Len(messages) = 1 /\ messages[1].messageId = Item(u).id
        /\ conversations[1].unreadCount = 1
        /\ CopiesIn(ToRoom("message:new", 1, 1, ""), emitted) = 1
        /\ CopiesIn(ToAll("message:new", 1, ""), emitted) = 1
        /\ BagCardinality(finished) = 2 /\ running = EmptyBag

\* C2: in every state no two conversation rows have the same (instance,
\* contact); deliveries for a contact without a conversation, racing or not,
\* leave one row.
C2_ConversationSingleton ==
    \A i, j \in Rows(conversations) :
        (conversations[i].instanceId = conversations[j].instanceId
         /\ conversations[i].contactId = conversations[j].contactId) => i = j

\* two handlers missed the conversation lookup; one has inserted the row and
\* the other is about to insert
C2_Witness ==
    /\ Len(conversations) = 1
    /\ \E t \in Running : IsUpsert(t) /\ t.pc = "upsert:conversation.create"

\* C3 (as claimed): a handler whose message insert fails on the unique index
\* (instance, external id) is not answered with an error.
C3_LoserCompletes ==
    [][\A t \in Running :
          (IsUpsert(t) /\ Moved(t) /\ t.pc = "upsert:message.create"
           /\ ~messages_instanceId_messageId_key(t.local.instanceId, Item(t).id))
          => \A u \in Answered : u.response = 200]_vars

\* C4 (as claimed): every webhook request is answered 200.
C4_WebhookAlways200 ==
    \A u \in Finished : u.kind = "webhook" => u.response = 200

\* an item the upsert handler neither skips nor fails on
WellFormed(item) ==
    /\ item.remoteJid # <<>> /\ item.remoteJid # StatusBroadcast
    /\ item.id # NoValue

\* C5 (as claimed): once a message-upsert for a known instance is answered,
\* every well-formed item that follows the item the handler failed on is
\* stored.
C5_ItemIsolation ==
    \A u \in Finished :
        (IsUpsert(u) /\ u.response = 500) =>
            \A i \in (u.idx + 1)..Len(u.data) :
                WellFormed(u.data[i]) =>
                    FindMessage(FindInstance(u.instanceName), u.data[i].id) # NoRow

\* C6: when the upsert handler of a new message that is not fromMe updates a
\* conversation it found RESOLVED, the conversation's status becomes OPEN and
\* its unread counter grows by exactly 1.
C6_ReopenOnReply ==
    [][\A t \in Running :
          (IsUpsert(t) /\ Moved(t) /\ t.pc = "upsert:conversation.update"
           /\ ~Item(t).fromMe /\ t.local.conversationStatus = "RESOLVED") =>
              LET c == t.local.conversationId IN
              /\ conversations'[c].status = "OPEN"
              /\ conversations'[c].unreadCount = conversations[c].unreadCount + 1]_vars

\* an inbound message was stored for a conversation found RESOLVED, which is
\* OPEN now
C6_Witness ==
    \E u \in Finished :
        /\ IsUpsert(u) /\ u.response = 200 /\ u.idx > 0 /\ ~Item(u).fromMe
        /\ u.local.conversationStatus = "RESOLVED"
        /\ u.local.messageRow # NoRow
        /\ conversations[u.local.conversationId].status = "OPEN"
        /\ conversations[u.local.conversationId].unreadCount = 2

\* the inbound messages stored for conversation c
Inbound(c) ==
    {i \in Rows(messages) : messages[i].conversationId = c /\ ~messages[i].isFromMe}

\* the handlers that have inserted an inbound message for conversation c and
\* have not yet updated the conversation
PendingIncrements(c) ==
    LET pending == {t \in Running :
                       /\ IsUpsert(t) /\ t.pc = "upsert:conversation.update"
                       /\ t.local.conversationId = c /\ ~Item(t).fromMe}
    IN IF pending = {} THEN 0
       ELSE LET Sum[S \in SUBSET pending] ==
                    IF S = {} THEN 0
                    ELSE LET x == CHOOSE y \in S : TRUE
                         IN CopiesIn(x, running) + Sum[S \ {x}]
            IN Sum[pending]

NoMarkAsRead == \A t \in Running \cup Finished : t.kind # "markAsRead"

\* C7: each inbound message processed adds exactly 1 to its conversation's
\* unread counter and no other step of an upsert handler changes a counter, so
\* that N inbound messages add N; markAsRead sets the status of every inbound
\* message of the conversation to READ, leaves every other message as it is,
\* and then sets the counter to 0.
C7_UnreadAccounting ==
    [][/\ \A t \in Running : (IsUpsert(t) /\ Moved(t)) =>
              \A c \in Rows(conversations) :
                  conversations'[c].unreadCount =
                      conversations[c].unreadCount
                      + (IF /\ t.pc = "upsert:conversation.update"
                            /\ t.local.conversationId = c
                            /\ ~Item(t).fromMe
                         THEN 1 ELSE 0)
       /\ NoMarkAsRead' =>
              \A c \in Rows(conversations') :
                  conversations'[c].unreadCount + PendingIncrements(c)'
                      = Cardinality(Inbound(c)')
       /\ \A t \in Running :
              (t.kind = "markAsRead" /\ Moved(t)
               /\ t.pc = "read:message.updateMany") =>
                  /\ Len(messages') = Len(messages)
                  /\ \A i \in Rows(messages) :
                        messages'[i] =
                            IF i \in Inbound(t.target)
                            THEN [messages[i] EXCEPT !.status = "READ"]
                            ELSE messages[i]
       /\ \A t \in Running :
              (t.kind = "markAsRead" /\ Moved(t)
               /\ t.pc = "read:conversation.update") =>
                  conversations'[t.target].unreadCount = 0]_vars

\* two inbound messages were counted, then markAsRead was answered: the counter
\* is 0 and both messages are READ
C7_Witness ==
    /\ running = EmptyBag
    /\ \E u \in Finished : u.kind = "markAsRead" /\ u.response = 200
    /\ Len(messages) = 2
    /\ \A i \in Rows(messages) : ~messages[i].isFromMe /\ messages[i].status = "READ"
    /\ conversations[1].unreadCount = 0
    /\ CopiesIn(ToAll("conversation:update", 1, "OPEN"), emitted) = 2

\* the stored message a message-update item names, NoRow when there is none
Target(t) == FindMessage(FindInstance(t.instanceName), Item(t).id)

\* the step makes no handler go on to prisma.message.update
NoWriteAhead ==
    \A u \in BagToSet(running') :
        u.pc = "update:message.update" => CopiesIn(u, running') <= CopiesIn(u, running)

\* the lookup step of t finds its message and goes on to prisma.message.update
WriteAhead(t) ==
    \E u \in BagToSet(running') :
        /\ u.pc = "update:message.update" /\ u.data = t.data /\ u.idx = t.idx
        /\ CopiesIn(u, running') > CopiesIn(u, running)

\* C8 (as claimed): a message-update with code 3 whose message is stored with
\* status READ emits no message:update.
C8_NoRegressionEvent ==
    [][\A t \in Running :
          (IsUpdate(t) /\ Moved(t) /\ Item(t).status = 3
           /\ Target(t) # NoRow /\ messages[Target(t)].status = "READ")
          => \A e \in BagToSet(NewEvents) : e.ev # "message:update"]_vars

\* C8 (amended): a message-update with code 3 that finds its message at
\* DELIVERED writes nothing and emits nothing; one that finds it at READ goes
\* on to set it to DELIVERED and emits one message:update with that status.
C8_DeliveredIsNoOpOnlyOnDelivered ==
    [][\A t \in Running :
          (IsUpdate(t) /\ Moved(t) /\ Item(t).status = 3) =>
              /\ (t.pc = "update:message.findUnique" /\ Target(t) # NoRow
                  /\ messages[Target(t)].status = "DELIVERED")
                 => (messages' = messages /\ emitted' = emitted /\ NoWriteAhead)
              /\ (t.pc = "update:message.findUnique" /\ Target(t) # NoRow
                  /\ messages[Target(t)].status = "READ")
                 => (messages' = messages /\ emitted' = emitted /\ WriteAhead(t))
              /\ (t.pc = "update:message.update" /\ t.local.messageStatus = "READ")
                 => /\ messages'[t.local.messageRow].status = "DELIVERED"
                    /\ NewEvents = SetToBag({ToRoom("message:update",
                           messages[t.local.messageRow].conversationId,
                           t.local.messageRow, "DELIVERED")})]_vars

\* a message found READ was set back to DELIVERED by a code 3, with its event
C8_Witness ==
    \E u \in Finished :
        /\ IsUpdate(u) /\ u.response = 200 /\ u.idx > 0 /\ Item(u).status = 3
        /\ u.local.messageRow # NoRow /\ u.local.messageStatus = "READ"
        /\ messages[u.local.messageRow].status = "DELIVERED"
        /\ CopiesIn(ToRoom("message:update", 1, u.local.messageRow, "DELIVERED"),
                    emitted) = 1

\* the status the fixed table gives a code, "" for a code outside the table
TableStatus(code) ==
    IF code = 2 THEN "SENT" ELSE IF code = 3 THEN "DELIVERED"
    ELSE IF code = 4 THEN "READ" ELSE ""

\* C9: an update whose message is stored sets SENT for code 2, DELIVERED for
\* 3 and READ for 4 (a write follows the lookup exactly when the table's
\* status differs from the one found), and leaves the status alone for any
\* other or missing code; an update that names no stored message, or an
\* unknown instance, changes no row and emits nothing.
C9_StatusMapping ==
    [][\A t \in Running :
          (IsUpdate(t) /\ Moved(t)) =>
              LET code == Item(t).status IN
              /\ t.pc = "update:message.update" =>
                    /\ TableStatus(code) # ""
                    /\ messages' = [messages EXCEPT
                           ![t.local.messageRow].status = TableStatus(code)]
              /\ t.pc # "update:message.update" => messages' = messages
              /\ (t.pc = "update:message.findUnique" /\ Target(t) # NoRow) =>
                    IF TableStatus(code) # ""
                       /\ TableStatus(code) # messages[Target(t)].status
                    THEN WriteAhead(t) ELSE NoWriteAhead
              /\ Target(t) = NoRow =>
                    /\ store' = store /\ emitted' = emitted /\ NoWriteAhead]_vars

\* an inbound message, stored as DELIVERED, was set to READ by a code 4 and
\* then to SENT by a code 2
C9_Witness ==
    /\ Len(messages) = 1 /\ ~messages[1].isFromMe /\ messages[1].status = "SENT"
    /\ CopiesIn(ToRoom("message:update", 1, 1, "READ"), emitted) = 1
    /\ CopiesIn(ToRoom("message:update", 1, 1, "SENT"), emitted) = 1
    /\ \E u \in Finished : /\ IsUpdate(u) /\ u.idx > 0 /\ Item(u).status = 2
                           /\ u.local.messageStatus = "READ"

\* the code of t's item maps to the status st, or is outside the table
MapsOnto(code, st) ==
    \/ code = 2 /\ st = "SENT"
    \/ code = 3 /\ st = "DELIVERED"
    \/ code = 4 /\ st = "READ"
    \/ code \notin {2, 3, 4}

\* C10: an update whose mapped status equals the status found performs no
\* write and emits nothing; the write of a changed status emits exactly one
\* event, a message:update to the room of the message's conversation, and
\* nothing on the global channel.
C10_NoOpSuppressionAndScope ==
    [][\A t \in Running :
          (IsUpdate(t) /\ Moved(t)) =>
              /\ (t.pc = "update:message.findUnique" /\ Target(t) # NoRow
                  /\ MapsOnto(Item(t).status, messages[Target(t)].status))
                 => (messages' = messages /\ emitted' = emitted /\ NoWriteAhead)
              /\ t.pc = "update:message.update" =>
                    /\ BagCardinality(NewEvents) = 1
                    /\ \A e \in BagToSet(NewEvents) :
                          /\ e.ev = "message:update"
                          /\ e.scope = "conversation"
                          /\ e.room = messages[t.local.messageRow].conversationId
                          /\ e.id = t.local.messageRow
                          /\ e.status = messages'[t.local.messageRow].status
              /\ t.pc # "update:message.update" =>
                    \A e \in BagToSet(NewEvents) : e.ev # "message:update"]_vars

\* a code 4 for a message that markAsRead had set to READ was answered, and no
\* message:update was ever emitted
C10_Witness ==
    /\ \E u \in Finished :
          /\ IsUpdate(u) /\ u.response = 200 /\ u.idx > 0 /\ Item(u).status = 4
          /\ u.local.messageRow # NoRow /\ u.local.messageStatus = "READ"
    /\ \A e \in BagToSet(emitted) : e.ev # "message:update"
    /\ running = EmptyBag

\* the identifier without its suffix, when the suffix is one of the two the
\* handler strips; the whole identifier otherwise
StrippedPhone(remoteJid) ==
    IF remoteJid[Len(remoteJid)] \in {"@s.whatsapp.net", "@g.us"}
    THEN SubSeq(remoteJid, 1, Len(remoteJid) - 1)
    ELSE remoteJid

\* the only request of the behaviour was a message-upsert and was answered 200
SoleUpsertDone ==
    /\ running = EmptyBag /\ BagCardinality(finished) = 1
    /\ \A u \in Finished : IsUpsert(u) /\ u.response = 200 /\ u.idx > 0

\* the store after the first message-upsert of a behaviour
AfterFirstUpsert ==
    \A u \in Finished :
        LET item == Item(u) IN
        /\ Len(contacts) = 1 /\ Len(conversations) = 1 /\ Len(messages) = 1
        /\ contacts[1].remoteJid = item.remoteJid
        /\ contacts[1].phoneNumber = StrippedPhone(item.remoteJid)
        /\ contacts[1].pushName =
              IF item.pushName \in {Absent, Some("")}
              THEN StrippedPhone(item.remoteJid) ELSE item.pushName
        /\ conversations[1].status = "OPEN"
        /\ conversations[1].unreadCount = IF item.fromMe THEN 0 ELSE 1
        /\ messages[1].status = IF item.fromMe THEN "SENT" ELSE "DELIVERED"
        /\ messages[1].messageId = item.id

Inserts(t) ==
    /\ IsUpsert(t) /\ Moved(t) /\ t.pc = "upsert:message.create"
    /\ Len(messages') = Len(messages) + 1

\* the payload has a plain-text field and an image field
TextAndImage(message) ==
    /\ Has(message) /\ Has(message[1].conversation)
    /\ Has(message[1].imageMessage)

\* the text of a text field that is there and not empty
NonEmpty(o) == o \notin {Absent, Some("")}

\* C12 (as claimed): the message stored for a payload with a plain-text field
\* and an image field has type IMAGE and the image caption as content.
C12_ImageBeforeText ==
    [][\A t \in Running :
          (Inserts(t) /\ TextAndImage(Item(t).message)) =>
              LET m == Item(t).message[1] IN
              /\ messages'[Len(messages')].type = "IMAGE"
              /\ messages'[Len(messages')].content = m.imageMessage[1].caption]_vars

\* C12 (amended): the message stored for a payload with a plain-text field
\* that is not empty and an image field has type TEXT and the plain text as
\* content; with an empty plain text, and no extended text, it has type IMAGE
\* and the caption as content, null when the image has no caption.
C12_TextBeforeImage ==
    [][\A t \in Running :
          (Inserts(t) /\ TextAndImage(Item(t).message)) =>
              LET m == Item(t).message[1]
                  row == messages'[Len(messages')]
              IN /\ NonEmpty(m.conversation) =>
                        row.type = "TEXT" /\ row.content = m.conversation
                 /\ (~NonEmpty(m.conversation)
                     /\ (Has(m.extendedTextMessage) =>
                            ~NonEmpty(m.extendedTextMessage[1].text))) =>
                        /\ row.type = "IMAGE"
                        /\ row.content = m.imageMessage[1].caption]_vars

\* a message with the plain text "Oi" and a captioned image was stored as the
\* text "Oi"
C12_Witness ==
    \E u \in Finished :
        /\ IsUpsert(u) /\ u.response = 200 /\ u.idx > 0
        /\ TextAndImage(Item(u).message)
        /\ Item(u).message[1].conversation = Some("Oi")
        /\ Item(u).message[1].imageMessage[1].caption = Some("foto")
        /\ u.local.messageRow # NoRow
        /\ messages[u.local.messageRow].type = "TEXT"
        /\ messages[u.local.messageRow].content = Some("Oi")

\* the variant keys in the order of precedence, and the type of each
VariantOrder ==
    <<"conversation", "extendedTextMessage", "imageMessage", "videoMessage",
      "audioMessage", "documentMessage", "stickerMessage", "locationMessage",
      "contactMessage", "reactionMessage">>

VariantType ==
    <<"TEXT", "TEXT", "IMAGE", "VIDEO", "AUDIO", "DOCUMENT", "STICKER",
      "LOCATION", "CONTACT", "REACTION">>

\* the key is in the payload
KeyPresent(m, k) == Has(m[VariantOrder[k]])

\* the key is in the payload, with a text that is not empty for the two text
\* variants
KeyMatches(m, k) ==
    /\ Has(m[VariantOrder[k]])
    /\ k = 1 => NonEmpty(m.conversation)
    /\ k = 2 => NonEmpty(m.extendedTextMessage[1].text)

\* the type of the first variant of the payload that Counts, TEXT when none
\* does or the payload is absent
FirstVariantType(message, Counts(_, _)) ==
    IF ~Has(message) THEN "TEXT"
    ELSE LET m == message[1]
             S == {k \in DOMAIN VariantOrder : Counts(m, k)}
         IN IF S = {} THEN "TEXT"
            ELSE VariantType[CHOOSE k \in S : \A j \in S : k <= j]

\* no variant of the payload Counts
NoVariant(message, Counts(_, _)) ==
    ~Has(message) \/ \A k \in DOMAIN VariantOrder : ~Counts(message[1], k)

\* C13 (as claimed): the stored type is the type of the first variant key
\* present in the payload, in the order of precedence, and TEXT with no
\* content when no key is present.
C13_FirstPresentKeyWins ==
    [][\A t \in Running :
          Inserts(t) =>
              LET row == messages'[Len(messages')] IN
              /\ row.type = FirstVariantType(Item(t).message, KeyPresent)
              /\ NoVariant(Item(t).message, KeyPresent) =>
                    row.content = Absent]_vars

\* C13 (amended): the stored type is the type of the first variant in the
\* order of precedence that is present, a plain text or an extended text
\* counting as present only when its text is not empty, and TEXT with no
\* content when there is none or the payload is absent.
C13_FirstMatchingVariantWins ==
    [][\A t \in Running :
          Inserts(t) =>
              LET row == messages'[Len(messages')] IN
              /\ row.type = FirstVariantType(Item(t).message, KeyMatches)
              /\ NoVariant(Item(t).message, KeyMatches) =>
                    row.content = Absent]_vars

\* a payload with an extended text that is empty, a document, a sticker and a
\* reaction, and nothing that precedes the document, was stored as a DOCUMENT
C13_Witness ==
    \E u \in Finished :
        /\ IsUpsert(u) /\ u.response = 200 /\ u.idx > 0
        /\ Has(Item(u).message)
        /\ LET m == Item(u).message[1] IN
           /\ m.extendedTextMessage = Some([text |-> Some("")])
           /\ ~Has(m.conversation) /\ ~Has(m.imageMessage)
           /\ ~Has(m.videoMessage) /\ ~Has(m.audioMessage)
           /\ Has(m.documentMessage) /\ Has(m.stickerMessage)
           /\ Has(m.reactionMessage)
        /\ u.local.messageRow # NoRow
        /\ messages[u.local.messageRow].type = "DOCUMENT"
        /\ messages[u.local.messageRow].content = Absent

\* an item the upsert handler skips: no remote identifier, the status
\* pseudo-identifier, or an instance name without a record
Skipped(item, instanceName) ==
    \/ item.remoteJid = <<>>
    \/ item.remoteJid = StatusBroadcast
    \/ FindInstance(instanceName) = NoRow

AllSkipped(u) ==
    IsUpsert(u) /\ \A i \in 1..Len(u.data) : Skipped(u.data[i], u.instanceName)

\* C14: no step of an upsert handler on an item without remote identifier,
\* for status@broadcast or for an unknown instance changes a row or emits an
\* event; a message-upsert all of whose items are such is answered 200; and
\* while every request received is such a message-upsert the store holds no
\* contact, conversation or message and nothing was emitted.
C14_SkippedItemsNoEffect ==
    [][/\ \A t \in Running :
              (IsUpsert(t) /\ Moved(t) /\ Skipped(Item(t), t.instanceName)) =>
                  store' = store /\ emitted' = emitted
       /\ \A u \in Answered : AllSkipped(u) => u.response = 200
       /\ (\A u \in BagToSet(running') \cup BagToSet(finished') : AllSkipped(u)) =>
              /\ contacts' = <<>> /\ conversations' = <<>> /\ messages' = <<>>
              /\ emitted' = EmptyBag]_vars

\* a batch of an item without remote identifier and a status item, and a
\* well-formed item for an unknown instance, were both answered 200 and left
\* the store empty
C14_Witness ==
    /\ running = EmptyBag
    /\ \E u \in Finished :
          /\ IsUpsert(u) /\ u.instanceName = "shop1" /\ u.response = 200
          /\ Len(u.data) = 2 /\ u.data[1].remoteJid = <<>>
          /\ u.data[2].remoteJid = StatusBroadcast
    /\ \E u \in Finished :
          /\ IsUpsert(u) /\ u.instanceName = "ghost" /\ u.response = 200
          /\ Len(u.data) = 1 /\ WellFormed(u.data[1])
    /\ contacts = <<>> /\ conversations = <<>> /\ messages = <<>>
    /\ emitted = EmptyBag

\* the requests that arrive in the step
Arrived ==
    {u \in BagToSet(running') \cup BagToSet(finished') :
        /\ Accepted' = Accepted + 1
        /\ CopiesIn(u, running') + CopiesIn(u, finished')
              > CopiesIn(u, running) + CopiesIn(u, finished)}

\* the request u as handleWebhook receives it, under the event name and with
\* the data shape given
Received(u, event, isArray) ==
    [Task("webhook", "start", event, u.instanceName, u.data, NoRow)
        EXCEPT !.isArray = isArray]

\* the upper-snake-case name of an event delivered under the name given
Canonical(event) ==
    CASE event \in UpsertNames -> <<"MESSAGES", "_", "UPSERT">>
      [] event \in UpdateNames -> <<"MESSAGES", "_", "UPDATE">>
      [] event \in ConnectionNames -> <<"CONNECTION", "_", "UPDATE">>
      [] event \in QrCodeNames -> <<"QRCODE", "_", "UPDATED">>
      [] OTHER -> event

\* C15: a request delivered under any name of an event is handled as the
\* request delivered under the event's upper-snake-case name is (QRCODE_UPDATE
\* as QRCODE_UPDATED), from its first step on; a request under a contacts
\* name or an unknown name is answered 200 at once, and its arrival changes
\* no row and emits nothing.
C15_EventNameNormalization ==
    [][\A u \in Arrived :
          /\ u = [Dispatch(Received(u, Canonical(u.event), u.isArray))
                    EXCEPT !.event = u.event]
          /\ u.event \in UpsertNames =>
                u.pc \in {"upsert:instance.findUnique", "done"}
          /\ u.event \in UpdateNames =>
                u.pc \in {"update:instance.findUnique", "done"}
          /\ u.event \in ConnectionNames => u.pc = "connection:instance.findUnique"
          /\ u.event \in QrCodeNames => u.pc = "qrcode:instance.findUnique"
          /\ u.event \in UnhandledNames =>
                /\ u.pc = "done" /\ u.response = 200
                /\ store' = store /\ emitted' = emitted]_vars

\* a delivery as messages.upsert stored the message, a delivery of the same
\* item as contacts.upsert was answered 200, and nothing else happened
C15_Witness ==
    /\ running = EmptyBag /\ BagCardinality(finished) = 2
    /\ \E u \in Finished : /\ u.event = <<"messages", ".", "upsert">>
                           /\ u.response = 200 /\ u.local.messageRow = 1
    /\ \E u \in Finished : /\ u.event = <<"contacts", ".", "upsert">>
                           /\ u.response = 200 /\ u.pc = "done"
    /\ Len(messages) = 1 /\ Len(contacts) = 1
    /\ BagCardinality(emitted) = 3

\* C16 (as claimed): a request whose data is an array of one element is
\* handled as the request whose data is the element alone: it starts as that
\* one does; a connection-update stores the status of the element's state;
\* a qrcode-update whose element has a code goes on to store it.
C16_ArrayEquivalence ==
    [][/\ \A u \in Arrived :
              (u.isArray /\ Len(u.data) = 1) =>
                  u = [Dispatch(Received(u, u.event, FALSE))
                          EXCEPT !.isArray = TRUE]
       /\ \A t \in Running :
              (Moved(t) /\ t.isArray /\ Len(t.data) = 1
               /\ t.pc = "connection:instance.update") =>
                  /\ t.data[1].state = "open" =>
                        instances'[t.local.instanceId].status = "CONNECTED"
                  /\ t.data[1].state = "connecting" =>
                        instances'[t.local.instanceId].status = "CONNECTING"
       /\ \A t \in Running :
              (Moved(t) /\ t.isArray /\ Len(t.data) = 1
               /\ t.pc = "qrcode:instance.findUnique"
               /\ FindInstance(t.instanceName) # NoRow
               /\ t.data[1].qrcode = Some([base64 |-> Some("QR1")])) =>
                  \E u \in BagToSet(running') : u.pc = "qrcode:instance.update"]_vars

\* C17: a send handler that finds the instance of its conversation in a
\* status other than CONNECTED answers with a 4xx; the request ends there,
\* before the gateway call, and the step changes no row (no message, the
\* conversation's last message as it was) and emits nothing.
C17_SendPrecondition ==
    [][\A t \in Running :
          (t.kind \in SendKinds /\ Moved(t)
           /\ t.pc = "send:conversation.findUnique"
           /\ t.target \in Rows(conversations)
           /\ instances[conversations[t.target].instanceId].status # "CONNECTED")
          => /\ \E u \in Answered :
                   /\ u = [t EXCEPT !.pc = "done", !.response = u.response]
                   /\ u.response \in 400..499
             /\ running' = running (-) SetToBag({t})
             /\ store' = store /\ emitted' = emitted]_vars

\* a text, a media and an audio send to a conversation of an instance that
\* was not CONNECTED were rejected with 400, and nothing was stored or emitted
C17_Witness ==
    /\ running = EmptyBag
    /\ \A k \in SendKinds :
          \E u \in Finished : u.kind = k /\ u.target = 1 /\ u.response = 400
                               /\ ValidBody(u.kind, u.data[1])
    /\ Len(messages) = 1 /\ conversations[1].lastMessage = <<"Oi">>
    /\ emitted = EmptyBag

\* C18 (as claimed): after a gateway send that succeeded the handler stores
\* exactly one new message, fromMe, SENT, with the gateway's id when there is
\* one and an id in any case, and then answers 201.
C18_OutboundCreation ==
    [][\A t \in Running :
          (t.kind \in SendKinds /\ Moved(t)) =>
              /\ t.pc = "send:message.create" =>
                    /\ Len(messages') = Len(messages) + 1
                    /\ LET row == messages'[Len(messages')] IN
                       /\ row.isFromMe /\ row.status = "SENT"
                       /\ row.messageId \notin {NoValue, ""}
                       /\ t.local.gatewayId # NoValue =>
                             row.messageId = t.local.gatewayId
              /\ t.pc = "send:conversation.update" =>
                    \E u \in Answered : u.response = 201]_vars

\* the step writes another status to the instance i
StatusChanged(i) == instances'[i].status # instances[i].status

\* a task at the awaited call pc takes the step
StepAt(pcs) == \E t \in Running : Moved(t) /\ t.pc \in pcs

\* C19 (as claimed): the status of an instance is changed only by the
\* connection-update handler of the webhook and by a logout.
C19_OnlyWebhookOrLogout ==
    [][\A i \in Rows(instances) :
          StatusChanged(i) =>
              StepAt({"connection:instance.update", "logout:instance.update"})]_vars

\* C19: the status of an instance is changed only by the connection-update
\* and qrcode-update handlers of the webhook, by a logout, by a connect
\* request to which the gateway returned a pairing code (to QRCODE) and by a
\* connection-state query to which the gateway reported another state than
\* the stored one it read (to the reported one); a restart and a sync never
\* change it.
C19_StatusWriters ==
    [][\A i \in Rows(instances) :
          StatusChanged(i) =>
              \/ StepAt({"connection:instance.update", "qrcode:instance.update",
                         "logout:instance.update"})
              \/ \E t \in Running :
                    /\ Moved(t) /\ t.target = i
                    /\ \/ /\ t.pc = "connect:instance.update"
                          /\ TruthyStr(t.local.qrCode)
                          /\ instances'[i].status = "QRCODE"
                       \/ /\ t.pc = "state:instance.update"
                          /\ t.local.newStatus # t.local.instanceStatus
                          /\ instances'[i].status = t.local.newStatus]_vars

\* a connect request has set QRCODE with the code of the gateway after a
\* connection-state query had set the state the gateway reported
C19_Witness ==
    /\ instances[1].status = "QRCODE" /\ instances[1].qrCode = Some("QR2")
    /\ \E u \in Finished :
          /\ u.kind = "connectionState" /\ u.response = 200
          /\ u.local.newStatus \in {"CONNECTED", "CONNECTING", "DISCONNECTED"}
          /\ u.local.newStatus # u.local.instanceStatus
    /\ \E u \in Finished :
          /\ u.kind = "connect" /\ u.response = 200
          /\ u.local.qrCode = Some("QR2")
          /\ u.local.instanceStatus # "QRCODE"

\* C20 (as claimed): the first user registered is ADMIN and every later one
\* is AGENT, whatever the interleaving of the registrations.
C20_FirstUserAdmin ==
    \A i \in Rows(users) :
        users[i].role = IF i = 1 THEN "ADMIN" ELSE "AGENT"

\* the stored messages with the external id of an item of the known instance
StoredAs(id) ==
    {i \in Rows(messages) :
        messages[i].instanceId = FindInstance("shop1") /\ messages[i].messageId = id}

\* two handlers or more were given the item of the finished upsert u, and no
\* handler was given another item
DeliveredTwice(u) ==
    /\ IsUpsert(u) /\ u.instanceName = "shop1" /\ Len(u.data) = 1
    /\ WellFormed(u.data[1])
    /\ \/ CopiesIn(u, finished) >= 2
       \/ \E v \in Finished : v # u /\ IsUpsert(v) /\ v.instanceName = "shop1"
                               /\ v.data = u.data
    /\ \A v \in Finished : IsUpsert(v) => v.data = u.data

\* C21: once two handlers of the same message-upsert item have finished,
\* however they interleaved with each other, one message is stored with the item's (instance,
\* external id), message:new was emitted once on the topic of its
\* conversation and once globally for it, and (without markAsRead) the unread
\* counter of the conversation counts each stored inbound message once.
C21_DuplicateDelivery ==
    \A u \in Finished :
        (DeliveredTwice(u) /\ running = EmptyBag) =>
            /\ Cardinality(StoredAs(u.data[1].id)) = 1
            /\ \A row \in StoredAs(u.data[1].id) :
                  LET c == messages[row].conversationId IN
                  /\ CopiesIn(ToRoom("message:new", c, row, ""), emitted) = 1
                  /\ CopiesIn(ToAll("message:new", row, ""), emitted) = 1
                  /\ NoMarkAsRead =>
                        conversations[c].unreadCount = Cardinality(Inbound(c))

\* two handlers of one inbound item both missed the message lookup; one
\* stored the message and the insert of the other failed
C21_Witness ==
    /\ running = EmptyBag /\ NoMarkAsRead
    /\ \E u, v \in Finished :
          /\ DeliveredTwice(u) /\ v.data = u.data /\ IsUpsert(v)
          /\ ~u.data[1].fromMe
          /\ u.response = 200 /\ u.local.messageRow # NoRow
          /\ v.response = 500 /\ v.local.messageRow = NoRow
    /\ Len(messages) = 1 /\ conversations[1].unreadCount = 1

\* C22 (as claimed): an inbound message stored while its conversation is
\* RESOLVED is stored by a handler that goes on to reopen the conversation,
\* that is, by one that knows the conversation as RESOLVED; so a conversation
\* is not left RESOLVED with an inbound message stored after its last resolve.
C22_ReopenAfterResolve ==
    [][\A t \in Running :
          (IsUpsert(t) /\ Moved(t) /\ t.pc = "upsert:message.create"
           /\ ~Item(t).fromMe /\ Len(messages') = Len(messages) + 1
           /\ conversations[t.local.conversationId].status = "RESOLVED")
          => t.local.conversationStatus = "RESOLVED"]_vars

\* C23 (as claimed): once the upsert handlers and the markAsRead handlers of a
\* conversation have all completed, each of its inbound messages is READ or
\* its unread counter is at least 1.
C23_NoLostUnread ==
    running = EmptyBag =>
        \A c \in Rows(conversations) :
            \A i \in Inbound(c) :
                messages[i].status = "READ" \/ conversations[c].unreadCount >= 1

\* C24 (as claimed): a send that the gateway accepted under an id is answered
\* 201 and one message is stored with that id, also when the upsert of the
\* gateway for the same id is handled at the same time.
C24_SendVersusEcho ==
    \A u \in Finished :
        (u.kind \in SendKinds /\ u.local.gatewayId # NoValue) =>
            /\ u.response = 201
            /\ Cardinality(StoredAs(u.local.gatewayId)) = 1

\* the contacts of the known instance with the remote identifier
ContactsOf(remoteJid) ==
    {i \in Rows(contacts) :
        contacts[i].instanceId = FindInstance("shop1")
        /\ contacts[i].remoteJid = remoteJid}

\* C25 (as claimed): once the handlers of two items with distinct message ids
\* and the same remote identifier have finished, one contact and one
\* conversation exist for the identifier and both messages are stored.
C25_FirstContactRace ==
    \A u, v \in Finished :
        (/\ running = EmptyBag
         /\ IsUpsert(u) /\ IsUpsert(v)
         /\ u.instanceName = "shop1" /\ v.instanceName = "shop1"
         /\ Len(u.data) = 1 /\ Len(v.data) = 1
         /\ WellFormed(u.data[1]) /\ WellFormed(v.data[1])
         /\ u.data[1].remoteJid = v.data[1].remoteJid
         /\ u.data[1].id # v.data[1].id) =>
            LET found == ContactsOf(u.data[1].remoteJid) IN
            /\ Cardinality(found) = 1
            /\ \A c \in found :
                  Cardinality({k \in Rows(conversations) :
                                  conversations[k].contactId = c}) = 1
            /\ StoredAs(u.data[1].id) # {} /\ StoredAs(v.data[1].id) # {}

\* the finished handlers of single items that got as far as conversation c
Reached(c) ==
    {u \in Finished : /\ IsUpsert(u) /\ u.idx > 0 /\ Len(u.data) = 1
                      /\ u.local.conversationId = c}

\* the items of those handlers have distinct message ids
DistinctIds(c) ==
    \A u, v \in Reached(c) :
        /\ CopiesIn(u, finished) = 1
        /\ u # v => Item(u).id # Item(v).id

\* C26: once the handlers of N inbound messages with distinct ids for a
\* conversation have all finished, however they interleaved and with no
\* markAsRead, the unread counter is the value it had before them (1 for the
\* conversation of the established store, 0 for one they created) plus N.
C26_NoLostIncrements ==
    (running = EmptyBag /\ NoMarkAsRead) =>
        \A c \in Rows(conversations) :
            DistinctIds(c) =>
                conversations[c].unreadCount =
                    (IF c = 1 THEN 1 ELSE 0)
                    + Cardinality({u \in Reached(c) : ~Item(u).fromMe})

\* two new inbound messages for the existing conversation were handled and
\* the counter went from 1 to 3
C26_Witness ==
    /\ running = EmptyBag /\ NoMarkAsRead
    /\ Len(messages) = 3 /\ conversations[1].unreadCount = 3
    /\ DistinctIds(1) /\ Cardinality(Reached(1)) = 2
    /\ \A u \in Reached(1) : ~Item(u).fromMe /\ u.response = 200

\* C27: in every state an instance whose status is CONNECTED has no pairing
\* code stored, whatever the interleaving of the connection-update and
\* qrcode-update webhooks, the connect requests, the connection-state
\* queries and the logouts.
C27_ConnectedWithoutCode ==
    \A i \in Rows(instances) :
        instances[i].status = "CONNECTED" => instances[i].qrCode = Absent

\* a connection-state query that had read a pairing code and a
\* connection-update that had read one have both written CONNECTED, and the
\* instance has no code
C27_Witness ==
    /\ instances[1].status = "CONNECTED" /\ instances[1].qrCode = Absent
    /\ \E u \in Finished :
          /\ u.kind = "connectionState" /\ u.response = 200
          /\ Has(u.local.qrCode) /\ u.local.newStatus = "CONNECTED"
    /\ \E u \in Finished :
          /\ u.kind = "webhook" /\ normalizedEvent(u.event) = CONNECTION_UPDATE
          /\ Has(u.local.qrCode) /\ ConnectionState(u) = "open"

\* C28 (as claimed): the step of an upsert handler leaves the status of a
\* conversation that is OPEN, PENDING or SPAM as it is, and changes that of a
\* RESOLVED one to OPEN only.
C28_OnlyResolvedToOpen ==
    [][\A t \in Running :
          (IsUpsert(t) /\ Moved(t)) =>
              \A c \in Rows(conversations) :
                  \/ conversations'[c].status = conversations[c].status
                  \/ /\ conversations[c].status = "RESOLVED"
                     /\ conversations'[c].status = "OPEN"]_vars

\* the rows of the conversations, without their last-message preview
WithoutPreview(table) ==
    [c \in Rows(table) |-> [table[c] EXCEPT !.lastMessage = Absent]]

\* t handles a message of the agent side: a send, or the upsert of a fromMe
\* item
AgentSide(t) ==
    \/ t.kind \in SendKinds
    \/ IsUpsert(t) /\ t.idx > 0 /\ Item(t).fromMe

\* C29: no step of a send handler or of the upsert handler of a fromMe item
\* changes anything but the last-message preview in a conversation that
\* exists: its unread counter and its status, RESOLVED included, stay.
C29_AgentSideFrame ==
    [][\A t \in Running :
          (AgentSide(t) /\ Moved(t)) =>
              \A c \in Rows(conversations) :
                  WithoutPreview(conversations')[c] = WithoutPreview(conversations)[c]]_vars

\* a send and the upsert of a fromMe item have both updated the preview of a
\* RESOLVED conversation with an unread message, which is as it was otherwise
C29_Witness ==
    /\ conversations[1].status = "RESOLVED" /\ conversations[1].unreadCount = 1
    /\ conversations[1].lastMessage # <<"Oi">>
    /\ \E u \in Finished : u.kind \in SendKinds /\ u.response = 201
    /\ \E u \in Finished :
          /\ IsUpsert(u) /\ u.idx > 0 /\ Item(u).fromMe /\ u.response = 200
          /\ u.local.conversationId = 1 /\ u.local.messageRow # NoRow
          /\ u.local.conversationStatus = "RESOLVED"

\* C30: in every state each message's conversation exists and has the
\* message's instance and contact, and each conversation's contact exists
\* and belongs to the conversation's instance, whether the rows come from a
\* message-upsert, a send or a history sync.
C30_ReferentialConsistency ==
    /\ \A m \in Rows(messages) :
          /\ messages[m].conversationId \in Rows(conversations)
          /\ conversations[messages[m].conversationId].instanceId
                = messages[m].instanceId
          /\ conversations[messages[m].conversationId].contactId
                = messages[m].contactId
    /\ \A c \in Rows(conversations) :
          /\ conversations[c].contactId \in Rows(contacts)
          /\ conversations[c].instanceId \in Rows(instances)
          /\ contacts[conversations[c].contactId].instanceId
                = conversations[c].instanceId

\* the second instance has a conversation with a message of an upsert and a
\* message of a send, and a sync of the first instance has stored a message
\* for a contact it found under another identifier
C30_Witness ==
    /\ \E u \in Finished : /\ IsUpsert(u) /\ u.response = 200
                           /\ u.local.instanceId = 2 /\ u.local.messageRow # NoRow
    /\ \E u \in Finished : /\ u.kind \in SendKinds /\ u.response = 201
                           /\ u.local.instanceId = 2
    /\ \E u \in Finished : /\ u.kind = "sync" /\ u.response = 200
                           /\ u.target = 1
    /\ contacts[1].remoteJid = AnaLidChat.remoteJid
    /\ \E m \in Rows(messages) : messages[m].messageId = "MSG3"

====
